---------------------------- MODULE Spec2Model ----------------------------
(***************************************************************************)
(* Model of server.py of BerelzDashboard: the M5 bar cache, the bar        *)
(* aggregator, the signal scorer's side effects and the backtest           *)
(* validator, driven by the refresh cycle get_live_data.                   *)
(*                                                                         *)
(* Conventions.                                                            *)
(*  - Wall-clock time (time.time(), datetime.now()) is the integer `now`,  *)
(*    in seconds.  A bar's 'time' string "YYYY.MM.DD HH:MM:SS" is modelled *)
(*    by the number of seconds it denotes: the fixed-width format makes    *)
(*    string order equal to time order.  Time 0 stands for a missing or    *)
(*    empty 'time'.                                                        *)
(*  - Prices are integers in cents, so (p - e) * 100 of the code is p - e. *)
(*  - The size limits of the code (2000, 200, 60, 50, 20, 100, 10 and the  *)
(*    7 days of retention) are scaled down; each scaled definition names   *)
(*    the literal it stands for.  BACKTEST_SECONDS and MIN_MOVE_PIPS keep  *)
(*    their values.                                                        *)
(***************************************************************************)
EXTENDS Integers, Sequences, FiniteSets, TLC

\* ------------------------------------------------------------------------
\* Program constants kept at their value
\* ------------------------------------------------------------------------
BACKTEST_SECONDS == 14400
MIN_MOVE_PIPS == 100
SAVE_INTERVAL == 60
M5_SECONDS == 300

\* ------------------------------------------------------------------------
\* Scaled program constants
\* ------------------------------------------------------------------------
\* M5_CACHE_MAX_BARS = 2000
M5_CACHE_MAX_BARS == 2
\* timedelta(days=7) of load_m5_cache, in seconds (604800)
CACHE_MAX_AGE == 7200
\* len(bars) < 50 of generate_signal
MIN_SIGNAL_BARS == 3
\* len(backtest_pending) > 20 of validate_backtest
PENDING_MAX == 2
\* len(signal_history) > 100 of generate_signal
HISTORY_MAX == 2
\* len(price_history) > 2000 of build_bars_from_price
PRICE_HISTORY_MAX == 3
\* len(price_history) > 10 of build_bars_from_price
PRICE_HISTORY_MIN == 1
\* len(bars) < 60 of build_bars_from_price
BACKFILL_TARGET == 3
\* bars[-200:] of build_bars_from_price
BARS_RETURN_MAX == 4
\* validated[-5:] of generate_signal
VALIDATED_SHOWN == 5

\* ------------------------------------------------------------------------
\* Bounds of the model
\* ------------------------------------------------------------------------
\* the clock advances in steps of TickSeconds, MaxTicks times at most
MaxTicks == 2
\* longest bar list an MT5 export holds
MaxBatch == 2
\* number of pending signals created over a behaviour: one more than the
\* queue holds
MaxSignals == PENDING_MAX + 1
\* number of process restarts over a behaviour
MaxRestarts == 1
\* longest list of base bars given to the timeframe compounder
MaxBars == 4

TickSeconds == BACKTEST_SECONDS \div 2
StartTime == TickSeconds

Times == {StartTime + k * TickSeconds : k \in 0..MaxTicks}

BasePrice == 2000 * 100
Prices == {BasePrice, BasePrice + 100, BasePrice + 200}

Max(a, b) == IF a >= b THEN a ELSE b
Min(a, b) == IF a <= b THEN a ELSE b
Abs(a) == IF a >= 0 THEN a ELSE 0 - a

SeqToSet(s) == {s[i] : i \in 1..Len(s)}

\* s[-n:] of Python, n > 0
LastN(s, n) == IF Len(s) > n THEN SubSeq(s, Len(s) - n + 1, Len(s)) ELSE s

\* ------------------------------------------------------------------------
\* Bars
\* ------------------------------------------------------------------------
Bar(t, o, h, l, c, v, syn) ==
    [time |-> t, o |-> o, h |-> h, l |-> l, c |-> c, v |-> v, synthetic |-> syn]

FlatBar(t, p, syn) == Bar(t, p, p, p, p, 100, syn)

\* ------------------------------------------------------------------------
\* M5 bar cache: merge_bars_into_cache
\* ------------------------------------------------------------------------
CacheTimes(cache) == {cache[i].time : i \in 1..Len(cache)}

\* index of the first cache entry with this time (the inner for ... break)
FirstIndexOf(cache, t) ==
    CHOOSE i \in 1..Len(cache) :
        /\ cache[i].time = t
        /\ \A j \in 1..(i - 1) : cache[j].time # t

\* the loop body for one bar; st = [cache, existing_times, added, updated]
MergeOneSkipsNothing(st, bar) ==
    IF bar.time = 0 THEN st
    ELSE IF bar.time \in st.existing_times
         THEN IF \E i \in 1..Len(st.cache) : st.cache[i].time = bar.time
              THEN [st EXCEPT !.cache[FirstIndexOf(st.cache, bar.time)] = bar,
                              !.updated = @ + 1]
              ELSE st
         ELSE [st EXCEPT !.cache = Append(@, bar),
                         !.existing_times = @ \cup {bar.time},
                         !.added = @ + 1]

MergeOneAlwaysAppends(st, bar) ==
    IF bar.synthetic THEN st
    ELSE IF bar.time = 0 THEN st
    ELSE [st EXCEPT !.cache = Append(@, bar),
                    !.existing_times = @ \cup {bar.time},
                    !.added = @ + 1]

MergeOne(st, bar) ==
    IF bar.synthetic THEN st
    ELSE IF bar.time = 0 THEN st
    ELSE IF bar.time \in st.existing_times
         THEN IF \E i \in 1..Len(st.cache) : st.cache[i].time = bar.time
              THEN [st EXCEPT !.cache[FirstIndexOf(st.cache, bar.time)] = bar,
                              !.updated = @ + 1]
              ELSE st
         ELSE [st EXCEPT !.cache = Append(@, bar),
                         !.existing_times = @ \cup {bar.time},
                         !.added = @ + 1]

RECURSIVE MergeLoop(_, _)
MergeLoop(st, bars) ==
    IF bars = <<>> THEN st
    ELSE MergeLoop(MergeOne(st, Head(bars)), Tail(bars))

\* list.sort(key=lambda b: b['time']): a stable sort, here by insertion
RECURSIVE InsertByTime(_, _)
InsertByTime(sorted, bar) ==
    IF sorted = <<>> THEN <<bar>>
    ELSE IF sorted[Len(sorted)].time <= bar.time THEN Append(sorted, bar)
    ELSE Append(InsertByTime(SubSeq(sorted, 1, Len(sorted) - 1), bar),
                sorted[Len(sorted)])

SortByTimeNot(s) == s

RECURSIVE SortByTime(_)
SortByTime(s) ==
    IF s = <<>> THEN <<>>
    ELSE InsertByTime(SortByTime(SubSeq(s, 1, Len(s) - 1)), s[Len(s)])

TrimKeepsOldest(s) ==
    IF Len(s) > M5_CACHE_MAX_BARS THEN SubSeq(s, 1, M5_CACHE_MAX_BARS) ELSE s

TrimCache(s) == LastN(s, M5_CACHE_MAX_BARS)

MergeBarsIntoCacheUpdateUnflagged(cache, dirty, new_bars) ==
    IF new_bars = <<>>
    THEN [cache |-> cache, dirty |-> dirty, added |-> 0, updated |-> 0,
          trimmed |-> 0]
    ELSE LET st == MergeLoop([cache |-> cache,
                              existing_times |-> CacheTimes(cache),
                              added |-> 0, updated |-> 0], new_bars)
             trimmed == TrimCache(SortByTime(st.cache))
         IN  IF st.added > 0 \/ st.updated > 0
             THEN [cache |-> trimmed, dirty |-> (dirty \/ st.added > 0),
                   added |-> st.added, updated |-> st.updated,
                   trimmed |-> Len(st.cache) - Len(trimmed)]
             ELSE [cache |-> cache, dirty |-> dirty, added |-> 0,
                   updated |-> 0, trimmed |-> 0]

\* the result of merge_bars_into_cache: the new cache and dirty flag, with
\* the locals added and updated and the number of bars the trim dropped
MergeBarsIntoCache(cache, dirty, new_bars) ==
    IF new_bars = <<>>
    THEN [cache |-> cache, dirty |-> dirty, added |-> 0, updated |-> 0,
          trimmed |-> 0]
    ELSE LET st == MergeLoop([cache |-> cache,
                              existing_times |-> CacheTimes(cache),
                              added |-> 0, updated |-> 0], new_bars)
             trimmed == TrimCache(SortByTime(st.cache))
         IN  IF st.added > 0 \/ st.updated > 0
             THEN [cache |-> trimmed, dirty |-> TRUE, added |-> st.added,
                   updated |-> st.updated,
                   trimmed |-> Len(st.cache) - Len(trimmed)]
             ELSE [cache |-> cache, dirty |-> dirty, added |-> 0,
                   updated |-> 0, trimmed |-> 0]

\* ------------------------------------------------------------------------
\* Bar aggregator: build_bars_from_price
\* ------------------------------------------------------------------------
\* bar_time.replace(second=0, microsecond=0).replace(minute=(minute // 5) * 5)
M5Bucket(t) == (t \div M5_SECONDS) * M5_SECONDS

RECURSIVE SetToSortedSeq(_)
SetToSortedSeq(S) ==
    IF S = {} THEN <<>>
    ELSE LET m == CHOOSE x \in S : \A y \in S : x <= y
         IN  <<m>> \o SetToSortedSeq(S \ {m})

RECURSIVE SeqMax(_)
SeqMax(s) == IF Len(s) = 1 THEN s[1] ELSE Max(s[1], SeqMax(Tail(s)))

RECURSIVE SeqMin(_)
SeqMin(s) == IF Len(s) = 1 THEN s[1] ELSE Min(s[1], SeqMin(Tail(s)))

\* the prices of one bucket, in the order they were observed
RECURSIVE BucketPrices(_, _)
BucketPrices(ph, bucket) ==
    IF ph = <<>> THEN <<>>
    ELSE IF M5Bucket(Head(ph).time) = bucket
         THEN <<Head(ph).price>> \o BucketPrices(Tail(ph), bucket)
         ELSE BucketPrices(Tail(ph), bucket)

RealBar(ph, bucket) ==
    LET prices == BucketPrices(ph, bucket)
    IN  Bar(bucket, prices[1], SeqMax(prices), SeqMin(prices),
            prices[Len(prices)], Len(prices) * 100, FALSE)

\* the real bars, one per 5-minute bucket, in ascending bucket order
RealBars(ph) ==
    IF Len(ph) > PRICE_HISTORY_MIN
    THEN LET keys == SetToSortedSeq({M5Bucket(ph[i].time) : i \in 1..Len(ph)})
         IN  [k \in 1..Len(keys) |-> RealBar(ph, keys[k])]
    ELSE <<>>

\* o, h, l, c of the synthetic bar for idx and the price, in cents:
\* round(price + sin(idx * 0.3) * price * 0.0045 -/+ price * 0.0015 * f, 2)
SyntheticOHLC ==
    <<200000, -3>> :> <<199235, 199595, 198995, 199355>> @@
    <<200000, -2>> :> <<199432, 199792, 199192, 199552>> @@
    <<200000, -1>> :> <<199674, 200034, 199434, 199794>> @@
    <<200000, 0>> :> <<199940, 200300, 199700, 200060>> @@
    <<200000, 1>> :> <<200206, 200566, 199966, 200326>> @@
    <<200000, 2>> :> <<200448, 200808, 200208, 200568>> @@
    <<200000, 3>> :> <<200645, 201005, 200405, 200765>> @@
    <<200000, 4>> :> <<200779, 201139, 200539, 200899>> @@
    <<200000, 5>> :> <<200838, 201198, 200598, 200958>> @@
    <<200100, -3>> :> <<199335, 199695, 199095, 199455>> @@
    <<200100, -2>> :> <<199532, 199892, 199291, 199652>> @@
    <<200100, -1>> :> <<199774, 200134, 199534, 199894>> @@
    <<200100, 0>> :> <<200040, 200400, 199800, 200160>> @@
    <<200100, 1>> :> <<200306, 200666, 200066, 200426>> @@
    <<200100, 2>> :> <<200548, 200909, 200308, 200668>> @@
    <<200100, 3>> :> <<200745, 201105, 200505, 200865>> @@
    <<200100, 4>> :> <<200879, 201239, 200639, 200999>> @@
    <<200100, 5>> :> <<200938, 201298, 200698, 201058>> @@
    <<200200, -3>> :> <<199434, 199795, 199194, 199554>> @@
    <<200200, -2>> :> <<199631, 199992, 199391, 199751>> @@
    <<200200, -1>> :> <<199874, 200234, 199633, 199994>> @@
    <<200200, 0>> :> <<200140, 200500, 199900, 200260>> @@
    <<200200, 1>> :> <<200406, 200767, 200166, 200526>> @@
    <<200200, 2>> :> <<200649, 201009, 200408, 200769>> @@
    <<200200, 3>> :> <<200846, 201206, 200605, 200966>> @@
    <<200200, 4>> :> <<200980, 201340, 200739, 201100>> @@
    <<200200, 5>> :> <<201039, 201399, 200798, 201159>>

SyntheticBar(idx, t, price) ==
    LET q == SyntheticOHLC[<<price, idx>>]
    IN  Bar(t - idx * M5_SECONDS, q[1], q[2], q[3], q[4], 1000, TRUE)

\* for i in range(60 - len(bars)): idx = 60 - len(bars) - i; bars.insert(0, ...)
\* (len(bars) is read again on every iteration)
RECURSIVE Backfill(_, _, _, _, _)
Backfill(bars, i, n, t, price) ==
    IF i >= n THEN bars
    ELSE Backfill(<<SyntheticBar(BACKFILL_TARGET - Len(bars) - i, t, price)>> \o bars,
                  i + 1, n, t, price)

\* bars[-1]['c'] = price, and h / l widened to hold it
FixLastBar(bars, price) ==
    IF bars = <<>> THEN bars
    ELSE LET n == Len(bars)
         IN  [bars EXCEPT ![n].c = price,
                          ![n].h = IF price > bars[n].h THEN price ELSE @,
                          ![n].l = IF price < bars[n].l THEN price ELSE @]

AppendPrice(ph, t, price) ==
    LastN(Append(ph, [time |-> t, price |-> price]), PRICE_HISTORY_MAX)

BuildBarsFromPrice(ph, t, price) ==
    LET ph1 == AppendPrice(ph, t, price)
        real == RealBars(ph1)
        filled == IF Len(real) < BACKFILL_TARGET
                  THEN Backfill(real, 0, BACKFILL_TARGET - Len(real), t, price)
                  ELSE real
    IN  LastN(FixLastBar(filled, price), BARS_RETURN_MAX)

\* ------------------------------------------------------------------------
\* Backtest validator: validate_backtest
\* ------------------------------------------------------------------------
ZeroResults ==
    [total |-> 0, wins |-> 0, losses |-> 0, buy_wins |-> 0, buy_total |-> 0,
     sell_wins |-> 0, sell_total |-> 0]

\* pips of a resolution; prices in cents, so (a - b) * 100 of the code is a - b
Pips(signal, entry_price, current_price) ==
    IF signal = "BUY" THEN current_price - entry_price
    ELSE IF signal = "SELL" THEN entry_price - current_price
    ELSE Abs(current_price - entry_price)

IsWinStrict(signal, entry_price, current_price) ==
    IF signal \in {"BUY", "SELL"}
    THEN Pips(signal, entry_price, current_price) > MIN_MOVE_PIPS
    ELSE Pips(signal, entry_price, current_price) <= MIN_MOVE_PIPS * 2

IsWin(signal, entry_price, current_price) ==
    IF signal \in {"BUY", "SELL"}
    THEN Pips(signal, entry_price, current_price) >= MIN_MOVE_PIPS
    ELSE Pips(signal, entry_price, current_price) < MIN_MOVE_PIPS * 2

CountResolutionBuyWinUncounted(results, signal, win) ==
    LET r1 == IF signal = "BUY"
              THEN [results EXCEPT !.buy_total = @ + 1,
                                   !.buy_wins = IF win THEN @ + 1 ELSE @]
              ELSE IF signal = "SELL"
              THEN [results EXCEPT !.sell_total = @ + 1,
                                   !.sell_wins = IF win THEN @ + 1 ELSE @]
              ELSE results
    IN  [r1 EXCEPT !.total = @ + 1,
                   !.wins = IF win /\ signal # "BUY" THEN @ + 1 ELSE @,
                   !.losses = IF win THEN @ ELSE @ + 1]

\* the counter updates of one resolution
CountResolution(results, signal, win) ==
    LET r1 == IF signal = "BUY"
              THEN [results EXCEPT !.buy_total = @ + 1,
                                   !.buy_wins = IF win THEN @ + 1 ELSE @]
              ELSE IF signal = "SELL"
              THEN [results EXCEPT !.sell_total = @ + 1,
                                   !.sell_wins = IF win THEN @ + 1 ELSE @]
              ELSE results
    IN  [r1 EXCEPT !.total = @ + 1,
                   !.wins = IF win THEN @ + 1 ELSE @,
                   !.losses = IF win THEN @ ELSE @ + 1]

\* list.remove(x): drops the first element equal to x
RECURSIVE RemoveFirst(_, _)
RemoveFirst(s, x) ==
    IF s = <<>> THEN <<>>
    ELSE IF Head(s) = x THEN Tail(s)
    ELSE <<Head(s)>> \o RemoveFirst(Tail(s), x)

IsDueTooEarly(p, t) == t - p.timestamp >= BACKTEST_SECONDS \div 2

\* now - pending['timestamp'] >= BACKTEST_SECONDS
IsDue(p, t) == t - p.timestamp >= BACKTEST_SECONDS

\* the body of the loop for one due entry; st = [pending, results, validated,
\* raised]
Resolve(st, p, current_price) ==
    LET win == IsWin(p.signal, p.price, current_price)
    IN  [raised |-> st.raised,
         pending |-> RemoveFirst(st.pending, p),
         results |-> CountResolution(st.results, p.signal, win),
         validated |-> Append(st.validated,
                              [signal |-> p.signal, entry |-> p.price,
                               exit |-> current_price,
                               pips |-> Pips(p.signal, p.price, current_price),
                               win |-> win, id |-> p.id])]

\* a key that a record read from a file lacks
Missing == 0 - 1

\* for pending in backtest_pending[:]: the loop runs over a copy of the queue;
\* pending['timestamp'] raises KeyError on an entry without the key, which
\* ends the loop with what it has done so far
RECURSIVE ValidateLoop(_, _, _, _)
ValidateLoop(st, copy, t, current_price) ==
    IF copy = <<>> THEN st
    ELSE IF Head(copy).timestamp = Missing THEN [st EXCEPT !.raised = TRUE]
    ELSE ValidateLoop(IF IsDue(Head(copy), t)
                      THEN Resolve(st, Head(copy), current_price)
                      ELSE st,
                      Tail(copy), t, current_price)

\* if len(backtest_pending) > 20: backtest_pending = backtest_pending[-20:]
CapPending(pending) == LastN(pending, PENDING_MAX)

ValidateBacktestCapsOnly(pending, results, t, current_price) ==
    [pending |-> CapPending(pending), results |-> results, validated |-> <<>>,
     raised |-> FALSE]

\* the queue, the counters and the list of validations after the loop and
\* the cap; the save that follows is part of the calling action; raised:
\* the loop ended by an exception, before the cap
ValidateBacktest(pending, results, t, current_price) ==
    LET st == ValidateLoop([pending |-> pending, results |-> results,
                            validated |-> <<>>, raised |-> FALSE],
                           pending, t, current_price)
    IN  IF st.raised THEN st ELSE [st EXCEPT !.pending = CapPending(@)]

\* ------------------------------------------------------------------------
\* Technical indicators: calc_sma, calc_ema, calc_rsi, calc_macd,
\* calc_bollinger, calc_stochastic, calc_adx
\* ------------------------------------------------------------------------
\* The periods, scaled so that MIN_SIGNAL_BARS bars give every indicator
\* the data it needs, as 50 bars do in the code. Means and ratios are held
\* as exact fractions and compared by cross-multiplication; for prices that
\* are whole numbers of euros the sums of the code are exact in binary
\* floating point and its comparisons agree with the exact ones, except
\* where a ratio meets a threshold or a rounding tie exactly: there the
\* code's result depends on the rounding of the division.
SMA_FAST == 2
SMA_SLOW == 3
RSI_PERIOD == 2
EMA_FAST == 2
EMA_SLOW == 3
BB_PERIOD == 2
STOCH_PERIOD == 2
ADX_PERIOD == 2

Closes(bars) == [i \in 1..Len(bars) |-> bars[i].c]

RECURSIVE SeqSum(_)
SeqSum(s) == IF s = <<>> THEN 0 ELSE Head(s) + SeqSum(Tail(s))

\* round(n / d) for d > 0
RoundDiv(n, d) ==
    IF n >= 0 THEN (2 * n + d) \div (2 * d)
    ELSE 0 - ((2 * (0 - n) + d) \div (2 * d))

\* the largest r of lo..hi with r * r <= n
RECURSIVE ISqrtIn(_, _, _)
ISqrtIn(lo, hi, n) ==
    IF lo = hi THEN lo
    ELSE LET mid == (lo + hi + 1) \div 2
         IN  IF mid * mid <= n THEN ISqrtIn(mid, hi, n)
             ELSE ISqrtIn(lo, mid - 1, n)

\* int(n ** 0.5), for n below 2^31
ISqrt(n) == ISqrtIn(0, 46340, n)

\* calc_sma: None below period closes, else sum(closes[-period:]) / period,
\* held as the sum
CalcSma(closes, period) ==
    IF Len(closes) < period THEN [ok |-> FALSE, sum |-> 0]
    ELSE [ok |-> TRUE, sum |-> SeqSum(LastN(closes, period))]

\* ema = price * k + ema * (1 - k) with k = 2 / (period + 1)
RECURSIVE EmaLoop(_, _, _)
EmaLoop(ema, prices, period) ==
    IF prices = <<>> THEN ema
    ELSE EmaLoop([ema EXCEPT
                     !.num = 2 * Head(prices) * ema.den + (period - 1) * ema.num,
                     !.den = (period + 1) * ema.den],
                 Tail(prices), period)

\* calc_ema, as the fraction num / den
CalcEma(closes, period) ==
    IF Len(closes) < period THEN [ok |-> FALSE, num |-> 0, den |-> 1]
    ELSE EmaLoop([ok |-> TRUE, num |-> SeqSum(SubSeq(closes, 1, period)),
                  den |-> period],
                 SubSeq(closes, period + 1, Len(closes)), period)

\* calc_rsi, as the fraction num / den: 100 - 100 / (1 + gain / loss) is
\* 100 * gain / (gain + loss)
CalcRsi(closes) ==
    IF Len(closes) < RSI_PERIOD + 1 THEN [num |-> 50, den |-> 1]
    ELSE LET diffs == [i \in 1..(Len(closes) - 1) |-> closes[i + 1] - closes[i]]
             last == LastN(diffs, RSI_PERIOD)
             gain == SeqSum([i \in 1..Len(last) |-> Max(0, last[i])])
             loss == SeqSum([i \in 1..Len(last) |-> Max(0, 0 - last[i])])
         IN  IF loss = 0 THEN [num |-> 100, den |-> 1]
             ELSE [num |-> 100 * gain, den |-> gain + loss]

\* calc_macd, its three values in units of 0.0001 (closes are in cents)
CalcMacd(closes) ==
    LET ema12 == CalcEma(closes, EMA_FAST)
        ema26 == CalcEma(closes, EMA_SLOW)
        n == ema12.num * ema26.den - ema26.num * ema12.den
        d == ema12.den * ema26.den
    IN  IF ~ema12.ok \/ ~ema26.ok
        THEN [macd |-> 0, signal |-> 0, histogram |-> 0]
        ELSE [macd |-> RoundDiv(100 * n, d), signal |-> RoundDiv(80 * n, d),
              histogram |-> RoundDiv(20 * n, d)]

\* calc_bollinger, upper and lower in cents: with dev the closes less the
\* first of them, period * sma is period * first + sum(dev) and
\* period * std is the root of period * sum(dev^2) - sum(dev)^2; the root
\* is taken to two more decimals than the cents it is rounded to
CalcBollinger(closes) ==
    IF Len(closes) < BB_PERIOD THEN [ok |-> FALSE, upper |-> 0, lower |-> 0]
    ELSE LET last == LastN(closes, BB_PERIOD)
             dev == [i \in 1..Len(last) |-> last[i] - last[1]]
             s == SeqSum(dev)
             q == SeqSum([i \in 1..Len(dev) |-> dev[i] * dev[i]])
             r == ISqrt(10000 * (BB_PERIOD * q - s * s))
             mid == 100 * (BB_PERIOD * last[1] + s)
         IN  [ok |-> TRUE,
              upper |-> RoundDiv(mid + 2 * r, 100 * BB_PERIOD),
              lower |-> RoundDiv(mid - 2 * r, 100 * BB_PERIOD)]

\* calc_stochastic: k in tenths
CalcStochastic(bars) ==
    IF Len(bars) < STOCH_PERIOD THEN 50 * 10
    ELSE LET last == LastN(bars, STOCH_PERIOD)
             highest == SeqMax([i \in 1..Len(last) |-> last[i].h])
             lowest == SeqMin([i \in 1..Len(last) |-> last[i].l])
             close == bars[Len(bars)].c
         IN  IF highest = lowest THEN 50 * 10
             ELSE Max(0, Min(100 * 10,
                             RoundDiv(100 * 10 * (close - lowest),
                                      highest - lowest)))

\* calc_adx, in tenths
CalcAdx(bars) ==
    IF Len(bars) < ADX_PERIOD + 1 THEN 25 * 10
    ELSE LET first == Len(bars) - ADX_PERIOD + 1
             high_diff(i) == bars[i].h - bars[i - 1].h
             low_diff(i) == bars[i - 1].l - bars[i].l
             plus(i) == IF high_diff(i) > low_diff(i) /\ high_diff(i) > 0
                        THEN high_diff(i) ELSE 0
             minus(i) == IF low_diff(i) > high_diff(i) /\ low_diff(i) > 0
                         THEN low_diff(i) ELSE 0
             tr(i) == Max(Max(bars[i].h - bars[i].l,
                              Abs(bars[i].h - bars[i - 1].c)),
                          Abs(bars[i].l - bars[i - 1].c))
             plus_dm == SeqSum([k \in 1..ADX_PERIOD |-> plus(first + k - 1)])
             minus_dm == SeqSum([k \in 1..ADX_PERIOD |-> minus(first + k - 1)])
             tr_sum == SeqSum([k \in 1..ADX_PERIOD |-> tr(first + k - 1)])
         IN  IF tr_sum = 0 THEN 25 * 10
             ELSE IF plus_dm + minus_dm = 0 THEN 25 * 10
             ELSE Max(0, Min(100 * 10,
                             RoundDiv(100 * 10 * Abs(plus_dm - minus_dm),
                                      plus_dm + minus_dm)))

\* ------------------------------------------------------------------------
\* Sub-scores of generate_signal
\* ------------------------------------------------------------------------
\* scores['trend']: current against sma20 against sma50
TrendScore(closes, current) ==
    LET sma20 == CalcSma(closes, SMA_FAST)
        sma50 == CalcSma(closes, SMA_SLOW)
        above == current * SMA_FAST > sma20.sum
        below == current * SMA_FAST < sma20.sum
        over == sma20.sum * SMA_SLOW > sma50.sum * SMA_FAST
        under == sma20.sum * SMA_SLOW < sma50.sum * SMA_FAST
    IN  IF ~(sma20.ok /\ sma20.sum # 0 /\ sma50.ok /\ sma50.sum # 0) THEN 0
        ELSE IF above /\ over THEN 100
        ELSE IF above /\ under THEN 60
        ELSE IF below /\ under THEN -100
        ELSE IF below /\ over THEN -60
        ELSE 0

RsiScore(rsi) ==
    IF rsi.num < 25 * rsi.den THEN 100
    ELSE IF rsi.num < 35 * rsi.den THEN 70
    ELSE IF rsi.num > 75 * rsi.den THEN -100
    ELSE IF rsi.num > 65 * rsi.den THEN -70
    ELSE 0

StochScore(k) ==
    IF k < 20 * 10 THEN 80
    ELSE IF k > 80 * 10 THEN -80
    ELSE 0

\* scores['momentum']: the mean of the two, times 1.2 when they agree
MomentumScore(rsi_score, stoch_score) ==
    IF (rsi_score > 0 /\ stoch_score > 0) \/ (rsi_score < 0 /\ stoch_score < 0)
    THEN ((rsi_score + stoch_score) * 12) \div 20
    ELSE (rsi_score + stoch_score) \div 2

\* scores['macd']; the scaled histogram of the last branch is held as the
\* nearest whole number
MacdScore(macd) ==
    IF macd.histogram > 0 /\ macd.macd > macd.signal
    THEN (IF 10 * macd.histogram > Abs(macd.signal) THEN 100 ELSE 80)
    ELSE IF macd.histogram < 0 /\ macd.macd < macd.signal
    THEN (IF 10 * Abs(macd.histogram) > Abs(macd.signal) THEN -100 ELSE -80)
    ELSE RoundDiv(macd.histogram, 1000)

\* scores['volatility'] from the position of current between the bands
VolatilityScore(bb, current) ==
    IF ~bb.ok \/ bb.upper = bb.lower THEN 0
    ELSE LET width == bb.upper - bb.lower
             pos == 100 * (current - bb.lower)
         IN  IF pos < 10 * width THEN 100
             ELSE IF pos < 25 * width THEN 60
             ELSE IF pos > 90 * width THEN -100
             ELSE IF pos > 75 * width THEN -60
             ELSE 0

\* the four sub-scores that the indicators of bars and the bid give
SubScores(bars, bid) ==
    [trend |-> TrendScore(Closes(bars), bid),
     momentum |-> MomentumScore(RsiScore(CalcRsi(Closes(bars))),
                                StochScore(CalcStochastic(bars))),
     macd |-> MacdScore(CalcMacd(Closes(bars))),
     volatility |-> VolatilityScore(CalcBollinger(Closes(bars)), bid)]

\* ------------------------------------------------------------------------
\* Timeframe compounder: build_h1_bars_from_m5, build_d1_bars_from_m5
\* ------------------------------------------------------------------------
\* bar_time[:13] and bar_time[:10] of a bar are its hour and its day
HOUR_SECONDS == 3600
DAY_SECONDS == 86400
\* 12 and 3 in the code
H1_MIN_BARS == 3
H1_MIN_BUCKET == 2
\* 50 and 10 in the code
D1_MIN_BARS == 3
D1_MIN_BUCKET == 2

\* the bars whose time has the key, in the order of m5_bars; bars without a
\* time are in no bucket
RECURSIVE BucketOf(_, _, _)
BucketOf(m5_bars, span, key) ==
    IF m5_bars = <<>> THEN <<>>
    ELSE IF Head(m5_bars).time # 0 /\ Head(m5_bars).time \div span = key
         THEN <<Head(m5_bars)>> \o BucketOf(Tail(m5_bars), span, key)
         ELSE BucketOf(Tail(m5_bars), span, key)

CompoundBarOpenOfLast(bucket, t) ==
    Bar(t, bucket[Len(bucket)].o,
        SeqMax([i \in 1..Len(bucket) |-> bucket[i].h]),
        SeqMin([i \in 1..Len(bucket) |-> bucket[i].l]),
        bucket[Len(bucket)].c,
        SeqSum([i \in 1..Len(bucket) |-> bucket[i].v]), FALSE)

\* the bar of one bucket: o of the first, h the highest, l the lowest, c of
\* the last, v the sum
CompoundBar(bucket, t) ==
    Bar(t, bucket[1].o,
        SeqMax([i \in 1..Len(bucket) |-> bucket[i].h]),
        SeqMin([i \in 1..Len(bucket) |-> bucket[i].l]),
        bucket[Len(bucket)].c,
        SeqSum([i \in 1..Len(bucket) |-> bucket[i].v]), FALSE)

\* the loop over sorted(keys), buckets below min_bucket skipped
RECURSIVE CompoundLoop(_, _, _, _)
CompoundLoop(keys, m5_bars, span, min_bucket) ==
    IF keys = <<>> THEN <<>>
    ELSE LET bucket == BucketOf(m5_bars, span, Head(keys))
             rest == CompoundLoop(Tail(keys), m5_bars, span, min_bucket)
         IN  IF Len(bucket) < min_bucket THEN rest
             ELSE <<CompoundBar(bucket, Head(keys) * span)>> \o rest

BucketKeys(m5_bars, span) ==
    SetToSortedSeq({m5_bars[i].time \div span :
                        i \in {j \in 1..Len(m5_bars) : m5_bars[j].time # 0}})

BuildH1BarsFromM5(m5_bars) ==
    IF Len(m5_bars) < H1_MIN_BARS THEN <<>>
    ELSE CompoundLoop(BucketKeys(m5_bars, HOUR_SECONDS), m5_bars, HOUR_SECONDS,
                      H1_MIN_BUCKET)

BuildD1BarsFromM5(m5_bars) ==
    IF Len(m5_bars) < D1_MIN_BARS THEN <<>>
    ELSE CompoundLoop(BucketKeys(m5_bars, DAY_SECONDS), m5_bars, DAY_SECONDS,
                      D1_MIN_BUCKET)

\* ------------------------------------------------------------------------
\* get_1h_momentum
\* ------------------------------------------------------------------------
\* range(1, 5) and len(bars_h1) >= 4
MOMENTUM_HOURS == 4
\* 12, 48 and 6 in the code
M5_PER_HOUR == 2
MOMENTUM_MIN_BARS == MOMENTUM_HOURS * M5_PER_HOUR
MIN_HOUR_BARS == 1

Direction(change) ==
    IF change > 0 THEN "UP" ELSE IF change < 0 THEN "DOWN" ELSE "FLAT"

\* the placeholder of an hour; None is held as 0
Collecting(h) ==
    [hour |-> h, open |-> 0, close |-> 0, change |-> 0,
     direction |-> "COLLECTING"]

\* if h1_open and h1_close: the candle of the hour, else the placeholder
HourEntry(h, h1_open, h1_close) ==
    IF h1_open # 0 /\ h1_close # 0
    THEN [hour |-> h, open |-> h1_open, close |-> h1_close,
          change |-> h1_close - h1_open,
          direction |-> Direction(h1_close - h1_open)]
    ELSE Collecting(h)

\* hour h from the hourly bars: bars_h1[-h]
HourFromH1(h, bars_h1) ==
    IF h <= Len(bars_h1)
    THEN HourEntry(h, bars_h1[Len(bars_h1) - h + 1].o,
                   bars_h1[Len(bars_h1) - h + 1].c)
    ELSE Collecting(h)

\* hour h from the base bars: bars[-12 * h : -12 * h + 12]
HourFromM5(h, bars) ==
    IF h * M5_PER_HOUR <= Len(bars)
    THEN LET first == Len(bars) - h * M5_PER_HOUR + 1
             hour_bars == SubSeq(bars, first, first + M5_PER_HOUR - 1)
         IN  IF Len(hour_bars) >= MIN_HOUR_BARS
             THEN HourEntry(h, hour_bars[1].o, hour_bars[Len(hour_bars)].c)
             ELSE Collecting(h)
    ELSE Collecting(h)

MomentumTrendNeverFlat(greens, reds) == IF greens >= reds THEN "UP" ELSE "DOWN"

\* 'UP' if greens > reds else 'DOWN' if reds > greens else 'FLAT'
MomentumTrend(greens, reds) ==
    IF greens > reds THEN "UP" ELSE IF reds > greens THEN "DOWN" ELSE "FLAT"

MomentumOf(hours_data) ==
    LET greens == Cardinality({h \in 1..Len(hours_data) :
                                   hours_data[h].direction = "UP"})
        reds == Cardinality({h \in 1..Len(hours_data) :
                                 hours_data[h].direction = "DOWN"})
    IN  [direction |-> hours_data[1].direction, hours |-> hours_data,
         greens |-> greens, reds |-> reds,
         trend |-> MomentumTrend(greens, reds)]

Get1hMomentum(bars, bars_h1) ==
    IF Len(bars_h1) >= MOMENTUM_HOURS
    THEN MomentumOf([h \in 1..MOMENTUM_HOURS |-> HourFromH1(h, bars_h1)])
    ELSE IF Len(bars) >= MOMENTUM_MIN_BARS
    THEN MomentumOf([h \in 1..MOMENTUM_HOURS |-> HourFromM5(h, bars)])
    ELSE [direction |-> "COLLECTING",
          hours |-> [h \in 1..MOMENTUM_HOURS |-> Collecting(h)],
          greens |-> 0, reds |-> 0, trend |-> "FLAT"]

\* ------------------------------------------------------------------------
\* Signal scorer: generate_signal
\* ------------------------------------------------------------------------
\* scores['strength'] from the ADX gate; adx is held in tenths, as calc_adx
\* rounds it to one decimal
Strength(adx, trend) ==
    IF adx > 40 * 10 THEN (IF trend > 0 THEN 100 ELSE -100)
    ELSE IF adx > 25 * 10 THEN (IF trend > 0 THEN 50 ELSE -50)
    ELSE 0

\* 100 * final_score, the weights being 0.30, 0.25, 0.20, 0.15 and 0.10
FinalScore100(sv, adx) ==
    30 * sv.trend + 25 * sv.momentum + 20 * sv.macd + 15 * sv.volatility
    + 10 * Strength(adx, sv.trend)

DecideInclusive(fs100) ==
    IF fs100 >= 3500 THEN "BUY"
    ELSE IF fs100 <= -3500 THEN "SELL"
    ELSE "HOLD"

\* final_score > 35 -> BUY, final_score < -35 -> SELL, else HOLD
Decide(fs100) ==
    IF fs100 > 3500 THEN "BUY"
    ELSE IF fs100 < -3500 THEN "SELL"
    ELSE "HOLD"

\* int(confidence * 0.7): 90 * 0.7 is 62.99999999999999 in binary floating
\* point, every other confidence of 0..95 truncates as the exact product does
Damp(confidence) == IF confidence = 90 THEN 62 ELSE (confidence * 7) \div 10

Confidence(fs100, adx) ==
    LET signal == Decide(fs100)
        base == IF signal = "HOLD"
                THEN Max(30, 50 - (Abs(fs100) \div 100))
                ELSE Min(95, 50 + (Abs(fs100) \div 200))
    IN  IF adx < 20 * 10 THEN Damp(base) ELSE base

\* the value held for 'scores' where the result has no such key
NoScores ==
    [trend |-> 0, momentum |-> 0, macd |-> 0, volatility |-> 0, strength |-> 0]

ZeroStats == [total |-> 0, correct |-> 0, buy |-> 0, sell |-> 0, hold |-> 0]

\* signal_stats['total'] += 1; signal_stats[signal.lower()] += 1
CountSignalHoldUncounted(stats, signal) ==
    [stats EXCEPT !.total = @ + 1,
                  !.buy = IF signal = "BUY" THEN @ + 1 ELSE @,
                  !.sell = IF signal = "SELL" THEN @ + 1 ELSE @]

\* signal_stats['total'] += 1; signal_stats[signal.lower()] += 1
CountSignal(stats, signal) ==
    [stats EXCEPT !.total = @ + 1,
                  !.buy = IF signal = "BUY" THEN @ + 1 ELSE @,
                  !.sell = IF signal = "SELL" THEN @ + 1 ELSE @,
                  !.hold = IF signal = "HOLD" THEN @ + 1 ELSE @]

CapHistoryKeepsOldest(history) == SubSeq(history, 1, Min(Len(history), HISTORY_MAX))

\* if len(signal_history) > 100: signal_history = signal_history[-100:]
CapHistory(history) == LastN(history, HISTORY_MAX)

InsufficientData ==
    [signal |-> "HOLD", confidence |-> 0, score |-> 0, scores |-> NoScores,
     reason |-> "Insufficient data", validated |-> <<>>]

\* ------------------------------------------------------------------------
\* Files
\* ------------------------------------------------------------------------
\* A write ends in one of three ways: "ok"; "intact", open() raised and the
\* file is as before; "corrupt", the write raised after open() truncated it.
WriteOutcomes == {"ok", "intact", "corrupt"}

NoM5File == [kind |-> "absent", bars |-> <<>>]
NoBacktestFile ==
    [kind |-> "absent", pending |-> <<>>, results |-> ZeroResults,
     counted |-> <<>>]

\* json.dump(_m5_cache, f) under the outcome
WriteM5(file, cache, outcome) ==
    IF outcome = "ok" THEN [kind |-> "ok", bars |-> cache]
    ELSE IF outcome = "corrupt" THEN [kind |-> "corrupt", bars |-> <<>>]
    ELSE file

\* json.dump({'pending': ..., 'results': ...}, f) under the outcome; ids is
\* the history of the results written, kept beside them
WriteBacktest(file, pending, results, ids, outcome) ==
    IF outcome = "ok"
    THEN [kind |-> "ok", pending |-> pending, results |-> results,
          counted |-> ids]
    ELSE IF outcome = "corrupt"
         THEN [kind |-> "corrupt", pending |-> <<>>, results |-> ZeroResults,
               counted |-> <<>>]
    ELSE file

\* load_m5_cache: the bars of the file not older than the cutoff; an absent
\* or unreadable file gives the empty cache
LoadM5Cache(file, t) ==
    IF file.kind = "ok"
    THEN SelectSeq(file.bars, LAMBDA b : b.time >= t - CACHE_MAX_AGE)
    ELSE <<>>

\* load_backtest_data: an absent or unreadable file leaves the defaults
LoadBacktest(file) ==
    IF file.kind = "ok"
    THEN [pending |-> file.pending, results |-> file.results,
          counted |-> file.counted]
    ELSE [pending |-> <<>>, results |-> ZeroResults, counted |-> <<>>]

\* ------------------------------------------------------------------------
\* State
\* ------------------------------------------------------------------------
VARIABLES
    now,               \* wall clock, seconds
    pc,                \* position of the process: "idle", a stage of
                       \* get_live_data, or "stopped"
    data,              \* the local data of the get_live_data call under way
    server_signal,     \* the last return value of generate_signal
    m5_cache,          \* _m5_cache
    m5_cache_dirty,    \* _m5_cache_dirty
    m5_last_save,      \* _m5_last_save
    m5_file,           \* M5_CACHE_FILE
    price_history,     \* price_history
    backtest_pending,  \* backtest_pending
    backtest_results,  \* backtest_results
    backtest_file,     \* BACKTEST_FILE
    signal_history,    \* signal_history
    signal_stats,      \* signal_stats
    last_signal,       \* last_signal, "NONE" for None
    next_id,           \* history: number of pending signals created so far
    first_id,          \* history: next_id when the running process started
    counted,           \* history: the ids of the pending signals counted in
                       \* backtest_results, in the order of their resolution
    restarts,          \* history: number of process starts after the first
    merge_ev,          \* history: what the last merge_bars_into_cache did
    save_ev,           \* history: what the last stage that may call
                       \* save_m5_cache did
    cycle_write,       \* history: time and run of the last write of the cache
                       \* file that a refresh cycle made with success, and
                       \* the number of such writes in that run
    sig_ev,            \* history: what the last generate_signal did
    derived            \* bars_h1, bars_d1 and momentum_1h of the data that
                       \* get_live_data returns

vars == <<now, pc, data, server_signal, m5_cache, m5_cache_dirty, m5_last_save,
          m5_file, price_history, backtest_pending, backtest_results,
          backtest_file, signal_history, signal_stats, last_signal, next_id, counted,
          first_id, restarts, merge_ev, save_ev, cycle_write, sig_ev, derived>>

cacheVars == <<m5_cache, m5_cache_dirty, m5_last_save, m5_file>>
signalVars == <<backtest_pending, backtest_results, backtest_file,
                signal_history, signal_stats, last_signal, next_id, counted,
                first_id>>

NoData == [bid |-> 0, bars |-> <<>>, source |-> "NONE"]
NoSignal ==
    [signal |-> "NONE", confidence |-> 0, score |-> 0, scores |-> NoScores,
     reason |-> "", validated |-> <<>>]
\* "none": no call yet in this cycle; "skipped": the 60 seconds have not passed;
\* "clean": save_m5_cache returned at once; else the outcome of its write
NoSave == "none"
NoWrite == [time |-> 0, run |-> 0, n |-> 0]
NoMerge == [seen |-> FALSE, added |-> 0, updated |-> 0, trimmed |-> 0]
\* what the last call of generate_signal in the cycle did: the list validated
\* of its validate_backtest, whether the signal changed, the saves it made
NoEval == [kind |-> "none", changed |-> FALSE, validated |-> <<>>, writes |-> <<>>]

NoMomentum ==
    [direction |-> "NONE", hours |-> <<>>, greens |-> 0, reds |-> 0,
     trend |-> "NONE"]
\* nothing derived yet, and no bars_h1 or bars_d1 in the export
NoDerived == [bars_h1 |-> <<>>, bars_d1 |-> <<>>, momentum_1h |-> NoMomentum]

Init ==
    /\ now = StartTime
    /\ pc = "idle"
    /\ data = NoData
    /\ server_signal = NoSignal
    /\ m5_cache = <<>>
    /\ m5_cache_dirty = FALSE
    /\ m5_last_save = 0
    /\ m5_file = NoM5File
    /\ price_history = <<>>
    /\ backtest_pending = <<>>
    /\ backtest_results = ZeroResults
    /\ backtest_file = NoBacktestFile
    /\ signal_history = <<>>
    /\ signal_stats = ZeroStats
    /\ last_signal = "NONE"
    /\ next_id = 0
    /\ first_id = 0
    /\ counted = <<>>
    /\ restarts = 0
    /\ merge_ev = NoMerge
    /\ save_ev = NoSave
    /\ cycle_write = NoWrite
    /\ sig_ev = NoEval
    /\ derived = NoDerived

\* ------------------------------------------------------------------------
\* Environments: the inputs a specification draws from
\* ------------------------------------------------------------------------
\* tick: the seconds between two readings of the clock;
\* mt5: the exports read_mt5_data may return, as pairs of bid and bars;
\* api_bids: the bids fetch_live_price may return; scores and adxs: the
\* sub-scores and ADX the indicators may give (none listed: those computed
\* from the cycle's bars); m5_outcomes and bt_outcomes:
\* how a write of the cache file and of the backtest file may end
BatchesOf(bars) == UNION {[1..n -> bars] : n \in 0..MaxBatch}

Exports(bids, batches) == {[bid |-> b, bars |-> bs] : b \in bids, bs \in batches}

HoldScore == [trend |-> 100, momentum |-> 0, macd |-> 0, volatility |-> 0]
BuyScore == [trend |-> 100, momentum |-> 0, macd |-> 0, volatility |-> 60]
SellScore == [trend |-> -100, momentum |-> 0, macd |-> 0, volatility |-> -60]

\* back-fill bars only: nothing of such a batch enters the cache
BackfillBatch(n) == [i \in 1..n |-> FlatBar(StartTime, BasePrice, TRUE)]

\* rich bar batches (any order, repeated times, an empty time, a flagged
\* bar), all shorter than generate_signal needs
CacheEnv ==
    [mt5 |-> Exports({BasePrice},
                     BatchesOf({FlatBar(t, p, FALSE) :
                                   t \in Times, p \in {BasePrice, BasePrice + 100}}
                               \cup {FlatBar(0, BasePrice, FALSE),
                                     FlatBar(StartTime, BasePrice, TRUE)})),
     tick |-> TickSeconds,
     api_bids |-> {},
     scores |-> {HoldScore},
     adxs |-> {300},
     m5_outcomes |-> WriteOutcomes,
     bt_outcomes |-> {"ok"}]

\* the price API as the source, beside MT5 exports of one bar
ApiEnv ==
    [mt5 |-> Exports({BasePrice},
                     {<<FlatBar(StartTime, BasePrice, TRUE)>>,
                      <<FlatBar(StartTime + TickSeconds, BasePrice, FALSE)>>}),
     tick |-> TickSeconds,
     api_bids |-> {BasePrice + 100},
     scores |-> {HoldScore},
     adxs |-> {300},
     m5_outcomes |-> {"ok", "intact"},
     bt_outcomes |-> {"ok"}]

\* every bid and every decision, with enough bars or one bar short; every
\* write succeeds
SignalEnv ==
    [mt5 |-> Exports(Prices, {BackfillBatch(MIN_SIGNAL_BARS)})
             \cup Exports({BasePrice}, {BackfillBatch(MIN_SIGNAL_BARS - 1)}),
     tick |-> TickSeconds,
     api_bids |-> {},
     scores |-> {HoldScore, BuyScore, SellScore},
     adxs |-> {300},
     m5_outcomes |-> {"ok"},
     bt_outcomes |-> {"ok"}]

\* one bid, HOLD and BUY decisions; a write of the backtest file may end
\* after the truncation
ColdEnv ==
    [mt5 |-> Exports({BasePrice}, {BackfillBatch(MIN_SIGNAL_BARS),
                                   BackfillBatch(MIN_SIGNAL_BARS - 1)}),
     tick |-> TickSeconds,
     api_bids |-> {},
     scores |-> {HoldScore, BuyScore},
     adxs |-> {300},
     m5_outcomes |-> {"ok"},
     bt_outcomes |-> {"ok", "corrupt"}]

\* the clock read every SAVE_INTERVAL seconds; each export holds the bar of
\* the same candle, at one of two prices
ThrottleEnv ==
    [mt5 |-> Exports({BasePrice},
                     {<<FlatBar(StartTime, p, FALSE)>> :
                          p \in {BasePrice, BasePrice + 100}}),
     tick |-> SAVE_INTERVAL,
     api_bids |-> {},
     scores |-> {HoldScore},
     adxs |-> {300},
     m5_outcomes |-> {"ok", "intact"},
     bt_outcomes |-> {"ok"}]

\* sub-scores whose composite is 35, -35, 1.25 beside them, 0, and beyond,
\* under a weak, a medium and a strong ADX (15, 30, 45)
ScoreEnv ==
    [mt5 |-> Exports({BasePrice}, {BackfillBatch(MIN_SIGNAL_BARS)}),
     tick |-> TickSeconds,
     api_bids |-> {},
     scores |-> {[trend |-> t, momentum |-> m, macd |-> 0, volatility |-> 0] :
                     t \in {100, 0 - 100}, m \in {0 - 5, 0, 5}}
                \cup {[trend |-> 0, momentum |-> 0, macd |-> 0, volatility |-> 0]},
     adxs |-> {150, 300, 450},
     m5_outcomes |-> {"ok"},
     bt_outcomes |-> {"ok"}]

\* the sub-scores and the ADX computed from the bars: exports of three
\* bars of consecutive candles, flat at one of two prices, rising, falling,
\* ending in a candle with a range, or with rising highs over equal closes,
\* and a bid at, above or below them
SeriesBars(closes) ==
    [i \in 1..Len(closes) |->
        FlatBar(StartTime - (Len(closes) - i) * M5_SECONDS, closes[i], FALSE)]

RangeBars(p) ==
    <<FlatBar(StartTime - 2 * M5_SECONDS, p, FALSE),
      FlatBar(StartTime - M5_SECONDS, p, FALSE),
      Bar(StartTime, p, p + 200, p - 100, p + 100, 100, FALSE)>>

\* candles that all open and close at p, each with a higher high
WickBars(p) ==
    [i \in 1..MIN_SIGNAL_BARS |->
        Bar(StartTime - (MIN_SIGNAL_BARS - i) * M5_SECONDS, p, p + 100 * i, p, p,
            100, FALSE)]

IndicatorEnv ==
    [mt5 |-> Exports({BasePrice, BasePrice + 100},
                     {SeriesBars(<<p, p, p>>) : p \in {BasePrice, BasePrice + 100}}
                     \cup {SeriesBars(<<BasePrice, BasePrice + 100, BasePrice + 200>>),
                           SeriesBars(<<BasePrice + 200, BasePrice + 100, BasePrice>>),
                           SeriesBars(<<BasePrice + 100, BasePrice, BasePrice + 100>>),
                           RangeBars(BasePrice), WickBars(BasePrice)}),
     tick |-> TickSeconds,
     api_bids |-> {},
     scores |-> {},
     adxs |-> {},
     m5_outcomes |-> {"ok"},
     bt_outcomes |-> {"ok"}]

\* two bids, BUY and SELL decisions; a write of the backtest file may fail
PersistEnv ==
    [mt5 |-> Exports({BasePrice, BasePrice + 100},
                     {BackfillBatch(MIN_SIGNAL_BARS)})
             \cup Exports({BasePrice}, {BackfillBatch(MIN_SIGNAL_BARS - 1)}),
     tick |-> TickSeconds,
     api_bids |-> {},
     scores |-> {BuyScore, SellScore},
     adxs |-> {300},
     m5_outcomes |-> {"ok"},
     bt_outcomes |-> WriteOutcomes]

\* one bid, HOLD and BUY decisions, exports with enough bars and with one
\* bar too few, every write succeeding
LiveEnv ==
    [mt5 |-> Exports({BasePrice}, {BackfillBatch(MIN_SIGNAL_BARS),
                                   BackfillBatch(MIN_SIGNAL_BARS - 1)}),
     tick |-> TickSeconds,
     api_bids |-> {},
     scores |-> {HoldScore, BuyScore},
     adxs |-> {300},
     m5_outcomes |-> {"ok"},
     bt_outcomes |-> {"ok"}]

\* ------------------------------------------------------------------------
\* generate_signal, as a step of the calling action
\* ------------------------------------------------------------------------
NewPending(signal, bid, t, confidence, id) ==
    [signal |-> signal, price |-> bid, timestamp |-> t,
     confidence |-> confidence, id |-> id]

\* the entry of signal_history, without its time, date, price and reasons;
\* seq numbers the entries in the order they were appended
NewHistory(signal, confidence, fs100, prev, seq) ==
    [signal |-> signal, confidence |-> confidence, score |-> fs100,
     prev_signal |-> prev, seq |-> seq]

HasEnoughBarsAlways(bars) == TRUE

\* not (len(bars) < 50)
HasEnoughBars(bars) == Len(bars) >= MIN_SIGNAL_BARS

SignalChangedAlways(last, signal) == TRUE

\* last_signal != signal
SignalChanged(last, signal) == last # signal

SavesAfterValidationNever(validated) == FALSE

\* if validated: save_backtest_data()
SavesAfterValidation(validated) == validated # <<>>

\* if len(bars) < 50: return HOLD, confidence 0
SignalInsufficient ==
    /\ server_signal' = InsufficientData
    /\ sig_ev' = [NoEval EXCEPT !.kind = "insufficient"]
    /\ UNCHANGED signalVars

\* the evaluation with the indicators' sub-scores sv and adx; w1 and w2 are
\* the outcomes of the save of validate_backtest and of the save on a change
SignalEvaluate(bid, sv, adx, w1, w2) ==
    LET fs100 == FinalScore100(sv, adx)
        signal == Decide(fs100)
        confidence == Confidence(fs100, adx)
        v == ValidateBacktest(backtest_pending, backtest_results, now, bid)
        ids == counted \o [k \in 1..Len(v.validated) |-> v.validated[k].id]
        saved == SavesAfterValidation(v.validated)
        file1 == IF saved
                 THEN WriteBacktest(backtest_file, v.pending, v.results, ids, w1)
                 ELSE backtest_file
        changed == SignalChanged(last_signal, signal)
        pending2 == IF changed
                    THEN Append(v.pending,
                                NewPending(signal, bid, now, confidence, next_id + 1))
                    ELSE v.pending
        file2 == IF changed
                 THEN WriteBacktest(file1, pending2, v.results, ids, w2)
                 ELSE file1
    IN  /\ changed => next_id < MaxSignals
        /\ backtest_results' = v.results
        /\ counted' = ids
        /\ backtest_pending' = pending2
        /\ backtest_file' = file2
        /\ signal_stats' = IF changed THEN CountSignal(signal_stats, signal)
                           ELSE signal_stats
        /\ signal_history' =
               IF changed
               THEN CapHistory(Append(signal_history,
                                      NewHistory(signal, confidence, fs100,
                                                 last_signal, next_id + 1)))
               ELSE signal_history
        /\ last_signal' = IF changed THEN signal ELSE last_signal
        /\ next_id' = IF changed THEN next_id + 1 ELSE next_id
        /\ UNCHANGED first_id
        /\ server_signal' = [signal |-> signal, confidence |-> confidence,
                             score |-> fs100,
                             scores |-> [trend |-> sv.trend,
                                         momentum |-> sv.momentum,
                                         macd |-> sv.macd,
                                         volatility |-> sv.volatility,
                                         strength |-> Strength(adx, sv.trend)],
                             reason |-> "",
                             validated |-> LastN(v.validated, VALIDATED_SHOWN)]
        /\ sig_ev' = [kind |-> "eval", changed |-> changed,
                      validated |-> v.validated,
                      writes |-> (IF saved THEN <<w1>> ELSE <<>>)
                                 \o (IF changed THEN <<w2>> ELSE <<>>)]

\* validate_backtest raises: generate_signal ends there, with what the loop
\* did to the queue and the counters and nothing saved, and its caller gets
\* no signal
SignalRaises(bid) ==
    LET v == ValidateBacktest(backtest_pending, backtest_results, now, bid)
    IN  /\ backtest_pending' = v.pending
        /\ backtest_results' = v.results
        /\ counted' = counted \o [k \in 1..Len(v.validated) |-> v.validated[k].id]
        /\ sig_ev' = [NoEval EXCEPT !.kind = "raised", !.validated = v.validated]
        /\ UNCHANGED <<server_signal, backtest_file, signal_history,
                       signal_stats, last_signal, next_id, first_id>>

\* the sub-scores and the ADX of a call: those the environment lists, or,
\* when it lists none, those of the indicators of the call's bars
ScoresOf(E, bars, bid) ==
    IF E.scores = {} THEN {SubScores(bars, bid)} ELSE E.scores

AdxsOf(E, bars) == IF E.adxs = {} THEN {CalcAdx(bars)} ELSE E.adxs

GenerateSignal(E) ==
    IF ~HasEnoughBars(data.bars) THEN SignalInsufficient
    ELSE IF ValidateBacktest(backtest_pending, backtest_results, now,
                             data.bid).raised
    THEN SignalRaises(data.bid)
    ELSE \E sv \in ScoresOf(E, data.bars, data.bid),
            adx \in AdxsOf(E, data.bars),
            w1 \in E.bt_outcomes, w2 \in E.bt_outcomes :
            SignalEvaluate(data.bid, sv, adx, w1, w2)

\* ------------------------------------------------------------------------
\* save_m5_cache, as a step of the calling action
\* ------------------------------------------------------------------------
SaveM5CacheClearsFlag(outcome) ==
    IF ~m5_cache_dirty
    THEN /\ save_ev' = "clean"
         /\ UNCHANGED <<m5_file, m5_cache_dirty, m5_last_save>>
    ELSE /\ save_ev' = outcome
         /\ m5_file' = WriteM5(m5_file, m5_cache, outcome)
         /\ m5_cache_dirty' = FALSE
         /\ m5_last_save' = IF outcome = "ok" THEN now ELSE m5_last_save

SaveM5Cache(outcome) ==
    IF ~m5_cache_dirty
    THEN /\ save_ev' = "clean"
         /\ UNCHANGED <<m5_file, m5_cache_dirty, m5_last_save>>
    ELSE /\ save_ev' = outcome
         /\ m5_file' = WriteM5(m5_file, m5_cache, outcome)
         /\ m5_cache_dirty' = (outcome # "ok")
         /\ m5_last_save' = IF outcome = "ok" THEN now ELSE m5_last_save

\* ------------------------------------------------------------------------
\* The refresh cycle get_live_data, one action per stage
\* ------------------------------------------------------------------------
\* time passes between two requests
Tick(E) ==
    /\ pc \in {"idle", "stopped"}
    /\ now < StartTime + MaxTicks * E.tick
    /\ now' = now + E.tick
    /\ UNCHANGED <<derived, pc, data, server_signal, cacheVars, price_history,
                   signalVars, restarts, merge_ev, save_ev,
                   cycle_write, sig_ev>>

\* read_mt5_data gives the data of the cycle: a fresh export, or a stale one
\* when no price API answers
UseMt5(E) ==
    /\ pc = "idle"
    /\ \E export \in E.mt5 :
           data' = [bid |-> export.bid, bars |-> export.bars,
                    source |-> "MT5_LIVE"]
    /\ pc' = "merge"
    /\ server_signal' = NoSignal
    /\ merge_ev' = NoMerge
    /\ save_ev' = NoSave
    /\ sig_ev' = NoEval
    /\ UNCHANGED <<derived, now, cacheVars, price_history, signalVars, restarts,
                   cycle_write>>

\* no fresh MT5 export: get_api_data, whose fetch_live_price gives the bid
UseApi(E) ==
    /\ pc = "idle"
    /\ \E bid \in E.api_bids :
           data' = [bid |-> bid, bars |-> <<>>, source |-> "API"]
    /\ pc' = "api_build"
    /\ server_signal' = NoSignal
    /\ merge_ev' = NoMerge
    /\ save_ev' = NoSave
    /\ sig_ev' = NoEval
    /\ UNCHANGED <<derived, now, cacheVars, price_history, signalVars, restarts,
                   cycle_write>>

\* neither source gives data: get_live_data returns the error record
NoSource ==
    /\ pc = "idle"
    /\ data' = NoData
    /\ pc' = "merge"
    /\ server_signal' = NoSignal
    /\ merge_ev' = NoMerge
    /\ save_ev' = NoSave
    /\ sig_ev' = NoEval
    /\ UNCHANGED <<derived, now, cacheVars, price_history, signalVars, restarts,
                   cycle_write>>

\* get_api_data: bars = build_bars_from_price(bid)
ApiBuild ==
    /\ pc = "api_build"
    /\ price_history' = AppendPrice(price_history, now, data.bid)
    /\ data' = [data EXCEPT !.bars = BuildBarsFromPrice(price_history, now, data.bid)]
    /\ pc' = "api_signal"
    /\ UNCHANGED <<derived, now, server_signal, cacheVars, signalVars, restarts,
                   merge_ev, save_ev,
                   cycle_write, sig_ev>>

\* get_api_data: signal_data = generate_signal(bars, bid)
ApiSignal(E) ==
    /\ pc = "api_signal"
    /\ GenerateSignal(E)
    /\ pc' = IF sig_ev'.kind = "raised" THEN "idle" ELSE "merge"
    /\ data' = IF sig_ev'.kind = "raised" THEN NoData ELSE data
    /\ UNCHANGED <<derived, now, cacheVars, price_history, restarts, merge_ev, save_ev,
                   cycle_write>>

\* data.get('bars') and data.get('bid') fails: no stage of the pipeline runs
SkipPipeline ==
    /\ pc = "merge"
    /\ data.bars = <<>> \/ data.bid = 0
    /\ pc' = "idle"
    /\ data' = NoData
    /\ UNCHANGED <<derived, now, server_signal, cacheVars, price_history,
                   signalVars, restarts, merge_ev, save_ev,
                   cycle_write, sig_ev>>

\* merge_bars_into_cache(data['bars']), then the cached bars replace the
\* cycle's bars when there are more of them
MergeStep ==
    /\ pc = "merge"
    /\ data.bars # <<>> /\ data.bid # 0
    /\ LET m == MergeBarsIntoCache(m5_cache, m5_cache_dirty, data.bars)
       IN  /\ m5_cache' = m.cache
           /\ m5_cache_dirty' = m.dirty
           /\ merge_ev' = [seen |-> TRUE, added |-> m.added,
                           updated |-> m.updated, trimmed |-> m.trimmed]
           /\ data' = IF Len(m.cache) > Len(data.bars)
                      THEN [data EXCEPT !.bars = m.cache]
                      ELSE data
    /\ pc' = "flush"
    /\ UNCHANGED <<derived, now, server_signal, m5_last_save, m5_file, price_history,
                   signalVars, restarts, save_ev, cycle_write, sig_ev>>

ThrottleOpenAlways(t, last_save) == TRUE

\* time.time() - _m5_last_save > 60
ThrottleOpen(t, last_save) == t - last_save > SAVE_INTERVAL

\* if time.time() - _m5_last_save > 60: save_m5_cache()
FlushStep(E) ==
    /\ pc = "flush"
    /\ IF ThrottleOpen(now, m5_last_save)
       THEN \E outcome \in E.m5_outcomes :
                /\ SaveM5Cache(outcome)
                /\ cycle_write' = IF m5_cache_dirty /\ outcome = "ok"
                                  THEN [time |-> now, run |-> restarts,
                                        n |-> IF cycle_write.run = restarts
                                              THEN cycle_write.n + 1 ELSE 1]
                                  ELSE cycle_write
       ELSE /\ save_ev' = "skipped"
            /\ UNCHANGED <<m5_file, m5_cache_dirty, m5_last_save, cycle_write>>
    /\ pc' = "signal"
    /\ UNCHANGED <<derived, now, data, server_signal, m5_cache, price_history,
                   signalVars, restarts, merge_ev, sig_ev>>

\* data['server_signal'] = generate_signal(data['bars'], data['bid'])
SignalStep(E) ==
    /\ pc = "signal"
    /\ GenerateSignal(E)
    /\ pc' = "idle"
    /\ data' = NoData
    /\ UNCHANGED <<derived, now, cacheVars, price_history, restarts, merge_ev, save_ev,
                   cycle_write>>

\* if not data.get('bars_h1'): data['bars_h1'] = build_h1_bars_from_m5(...),
\* the same for bars_d1, then data['momentum_1h'] = get_1h_momentum(...):
\* the end of get_live_data, which reads the bars of the cycle and changes no
\* global
Derive ==
    /\ pc = "derive"
    /\ LET h1 == IF derived.bars_h1 # <<>> THEN derived.bars_h1
                 ELSE BuildH1BarsFromM5(data.bars)
           d1 == IF derived.bars_d1 # <<>> THEN derived.bars_d1
                 ELSE BuildD1BarsFromM5(data.bars)
       IN  derived' = [bars_h1 |-> h1, bars_d1 |-> d1,
                       momentum_1h |-> Get1hMomentum(data.bars, h1)]
    /\ pc' = "idle"
    /\ data' = NoData
    /\ UNCHANGED <<now, server_signal, cacheVars, price_history, signalVars,
                   restarts, merge_ev, save_ev, cycle_write, sig_ev>>

\* ------------------------------------------------------------------------
\* Process end and start
\* ------------------------------------------------------------------------
\* KeyboardInterrupt in serve_forever, taken between two requests:
\* save_m5_cache(), then the process ends
Shutdown(E) ==
    /\ pc = "idle"
    /\ \E outcome \in E.m5_outcomes : SaveM5Cache(outcome)
    /\ pc' = "stopped"
    /\ UNCHANGED <<derived, now, data, server_signal, m5_cache, price_history,
                   signalVars, restarts, merge_ev, cycle_write, sig_ev>>

\* serve_forever ends by an exception that is not KeyboardInterrupt, or the
\* process is ended by a signal: no handler of main runs
ErrorExit ==
    /\ pc = "idle"
    /\ pc' = "stopped"
    /\ save_ev' = NoSave
    /\ UNCHANGED <<derived, now, data, server_signal, cacheVars, price_history,
                   signalVars, restarts, merge_ev, cycle_write, sig_ev>>

\* while the process is down, backtest_data.json is replaced by a file that
\* is valid JSON with both keys, whose one pending entry lacks 'timestamp'
ForeignPending ==
    <<[signal |-> "BUY", price |-> BasePrice, timestamp |-> Missing,
       confidence |-> 50, id |-> 0]>>

ForeignBacktestFile ==
    /\ pc = "stopped"
    /\ backtest_file' = [kind |-> "ok", pending |-> ForeignPending,
                         results |-> ZeroResults, counted |-> <<>>]
    /\ UNCHANGED <<derived, now, pc, data, server_signal, cacheVars, price_history,
                   backtest_pending, backtest_results, signal_history,
                   signal_stats, last_signal, next_id, counted, first_id,
                   restarts,
                   merge_ev, save_ev, cycle_write, sig_ev>>

\* the module is loaded again: the globals are initialised, load_m5_cache()
\* and load_backtest_data() read the files
Start ==
    /\ pc = "stopped"
    /\ restarts < MaxRestarts
    /\ restarts' = restarts + 1
    /\ pc' = "idle"
    /\ data' = NoData
    /\ server_signal' = NoSignal
    /\ m5_cache' = LoadM5Cache(m5_file, now)
    /\ m5_cache_dirty' = FALSE
    /\ m5_last_save' = 0
    /\ price_history' = <<>>
    /\ backtest_pending' = LoadBacktest(backtest_file).pending
    /\ backtest_results' = LoadBacktest(backtest_file).results
    /\ counted' = LoadBacktest(backtest_file).counted
    /\ signal_history' = <<>>
    /\ signal_stats' = ZeroStats
    /\ last_signal' = "NONE"
    /\ first_id' = next_id
    /\ merge_ev' = NoMerge
    /\ save_ev' = NoSave
    /\ sig_ev' = NoEval
    /\ UNCHANGED <<derived, now, m5_file, backtest_file, next_id, cycle_write>>

\* ------------------------------------------------------------------------
\* Specifications
\* ------------------------------------------------------------------------
Next ==
    \/ Tick(CacheEnv)
    \/ UseMt5(CacheEnv)
    \/ NoSource
    \/ SkipPipeline
    \/ MergeStep
    \/ FlushStep(CacheEnv)
    \/ SignalStep(CacheEnv)
    \/ Shutdown(CacheEnv)
    \/ ErrorExit
    \/ Start

Spec == Init /\ [][Next]_vars

NextApi ==
    \/ Tick(ApiEnv)
    \/ UseMt5(ApiEnv)
    \/ UseApi(ApiEnv)
    \/ NoSource
    \/ ApiBuild
    \/ ApiSignal(ApiEnv)
    \/ SkipPipeline
    \/ MergeStep
    \/ FlushStep(ApiEnv)
    \/ SignalStep(ApiEnv)
    \/ Shutdown(ApiEnv)
    \/ Start

SpecApi == Init /\ [][NextApi]_vars

NextSignal ==
    \/ Tick(SignalEnv)
    \/ UseMt5(SignalEnv)
    \/ NoSource
    \/ SkipPipeline
    \/ MergeStep
    \/ FlushStep(SignalEnv)
    \/ SignalStep(SignalEnv)
    \/ Shutdown(SignalEnv)
    \/ Start

SpecSignal == Init /\ [][NextSignal]_vars

NextPersist ==
    \/ Tick(PersistEnv)
    \/ UseMt5(PersistEnv)
    \/ NoSource
    \/ SkipPipeline
    \/ MergeStep
    \/ FlushStep(PersistEnv)
    \/ SignalStep(PersistEnv)
    \/ Shutdown(PersistEnv)
    \/ Start

SpecPersist == Init /\ [][NextPersist]_vars

\* the process keeps running: requests with enough bars and with too few
\* keep arriving while the clock advances. Time advancing and evaluations
\* with enough bars recurring are conditions on the environment; a cycle
\* that has begun runs through its stages, the code being sequential.
NextLive ==
    \/ Tick(LiveEnv)
    \/ UseMt5(LiveEnv)
    \/ MergeStep
    \/ FlushStep(LiveEnv)
    \/ SignalStep(LiveEnv)

SpecLive ==
    /\ Init
    /\ [][NextLive]_vars
    /\ SF_vars(Tick(LiveEnv))
    /\ SF_vars(UseMt5(LiveEnv) /\ HasEnoughBars(data'.bars))
    /\ WF_vars(MergeStep)
    /\ WF_vars(FlushStep(LiveEnv))
    /\ WF_vars(SignalStep(LiveEnv))

NextThrottle ==
    \/ Tick(ThrottleEnv)
    \/ UseMt5(ThrottleEnv)
    \/ NoSource
    \/ SkipPipeline
    \/ MergeStep
    \/ FlushStep(ThrottleEnv)
    \/ SignalStep(ThrottleEnv)
    \/ Shutdown(ThrottleEnv)
    \/ ErrorExit
    \/ Start

SpecThrottle == Init /\ [][NextThrottle]_vars

NextCold ==
    \/ Tick(ColdEnv)
    \/ UseMt5(ColdEnv)
    \/ NoSource
    \/ SkipPipeline
    \/ MergeStep
    \/ FlushStep(ColdEnv)
    \/ SignalStep(ColdEnv)
    \/ Shutdown(ColdEnv)
    \/ ForeignBacktestFile
    \/ Start

SpecCold == Init /\ [][NextCold]_vars

\* get_live_data stands before its last lines with the bars and the
\* bars_h1 of a case in hand; everything else is as after construction
InitDerive(cases) ==
    /\ now = StartTime
    /\ pc = "derive"
    /\ \E c \in cases :
           /\ data = [bid |-> BasePrice, bars |-> c.bars, source |-> "MT5_LIVE"]
           /\ derived = [NoDerived EXCEPT !.bars_h1 = c.bars_h1]
    /\ server_signal = NoSignal
    /\ m5_cache = <<>>
    /\ m5_cache_dirty = FALSE
    /\ m5_last_save = 0
    /\ m5_file = NoM5File
    /\ price_history = <<>>
    /\ backtest_pending = <<>>
    /\ backtest_results = ZeroResults
    /\ backtest_file = NoBacktestFile
    /\ signal_history = <<>>
    /\ signal_stats = ZeroStats
    /\ last_signal = "NONE"
    /\ next_id = 0
    /\ first_id = 0
    /\ counted = <<>>
    /\ restarts = 0
    /\ merge_ev = NoMerge
    /\ save_ev = NoSave
    /\ cycle_write = NoWrite
    /\ sig_ev = NoEval

SeqsUpTo(S, n) == UNION {[1..k -> S] : k \in 0..n}

\* base bars of two hours of one day, of the next day and without a time,
\* each with its own prices and volume, in every order and with repetitions
CompoundBars ==
    {Bar(DAY_SECONDS, BasePrice, BasePrice + 200, BasePrice - 100,
         BasePrice + 100, 100, FALSE),
     Bar(DAY_SECONDS + M5_SECONDS, BasePrice + 100, BasePrice + 300,
         BasePrice, BasePrice + 200, 200, FALSE),
     Bar(DAY_SECONDS + HOUR_SECONDS, BasePrice + 200, BasePrice + 200,
         BasePrice - 200, BasePrice - 100, 300, FALSE),
     Bar(DAY_SECONDS + HOUR_SECONDS + M5_SECONDS, BasePrice - 100, BasePrice + 400,
         BasePrice - 100, BasePrice + 300, 400, FALSE),
     Bar(2 * DAY_SECONDS, BasePrice + 300, BasePrice + 500, BasePrice + 300,
         BasePrice + 400, 500, FALSE),
     Bar(0, BasePrice, BasePrice + 600, BasePrice - 300, BasePrice, 600, FALSE)}

CompoundCases ==
    {[bars |-> bs, bars_h1 |-> <<>>] : bs \in SeqsUpTo(CompoundBars, MaxBars)}

NextCompound == Derive

SpecCompound == InitDerive(CompoundCases) /\ [][NextCompound]_vars

\* rising, falling and empty candles: up to one base bar more than the 48
\* that four hours take, or up to one hourly bar more than four
MomentumBars ==
    {Bar(StartTime, BasePrice, BasePrice + 100, BasePrice, BasePrice + 100, 100,
         FALSE),
     Bar(StartTime, BasePrice + 100, BasePrice + 100, BasePrice, BasePrice, 100,
         FALSE),
     Bar(StartTime, 0, 0, 0, 0, 0, FALSE)}

MomentumCases ==
    {[bars |-> bs, bars_h1 |-> <<>>] :
         bs \in SeqsUpTo(MomentumBars, MOMENTUM_MIN_BARS + 1)}
    \cup {[bars |-> <<>>, bars_h1 |-> hs] :
              hs \in SeqsUpTo(MomentumBars, MOMENTUM_HOURS + 1)}

NextMomentum == Derive

SpecMomentum == InitDerive(MomentumCases) /\ [][NextMomentum]_vars

NextIndicators ==
    \/ Tick(IndicatorEnv)
    \/ UseMt5(IndicatorEnv)
    \/ MergeStep
    \/ FlushStep(IndicatorEnv)
    \/ SignalStep(IndicatorEnv)

SpecIndicators == Init /\ [][NextIndicators]_vars

NextScore ==
    \/ Tick(ScoreEnv)
    \/ UseMt5(ScoreEnv)
    \/ MergeStep
    \/ FlushStep(ScoreEnv)
    \/ SignalStep(ScoreEnv)

SpecScore == Init /\ [][NextScore]_vars

\* ------------------------------------------------------------------------
\* Properties of the bar cache
\* ------------------------------------------------------------------------
IsValidBar(b) == ~b.synthetic /\ b.time # 0

\* the times of the bars of a batch that merge_bars_into_cache does not skip
ValidTimes(bars) == {bars[i].time : i \in {k \in 1..Len(bars) : IsValidBar(bars[k])}}

\* the last bar of the batch that is merged under time t
LastMerged(bars, t) ==
    bars[CHOOSE i \in 1..Len(bars) :
             /\ IsValidBar(bars[i]) /\ bars[i].time = t
             /\ \A j \in (i + 1)..Len(bars) :
                    ~(IsValidBar(bars[j]) /\ bars[j].time = t)]

EntriesAt(cache, t) == {i \in 1..Len(cache) : cache[i].time = t}

\* the step is a call of merge_bars_into_cache(data['bars'])
IsMergeCall == pc = "merge" /\ pc' = "flush"

\* C1: in every state after the startup load and any merges and saves, the
\* timestamps of the cache are pairwise distinct and in ascending order.
CacheSortedUnique ==
    \A i \in 1..(Len(m5_cache) - 1) : m5_cache[i].time < m5_cache[i + 1].time

\* a merge after a restart took an unsorted batch of two new bars into a
\* cache that held bars, and trimmed
CacheSortedUniqueWitness ==
    /\ pc = "flush"
    /\ restarts = 1
    /\ Len(data.bars) = 2
    /\ data.bars[1].time > data.bars[2].time
    /\ merge_ev.added = 2
    /\ merge_ev.trimmed >= 1

\* C2: after every merge the cache holds at most M5_CACHE_MAX_BARS bars (as
\* it does after a load), and the bars a merge drops are exactly those with
\* the smallest timestamps: every dropped time is below every kept time, and
\* nothing is dropped unless the cache is full.
MergeBoundsCache ==
    /\ [](Len(m5_cache) <= M5_CACHE_MAX_BARS)
    /\ [][IsMergeCall =>
            LET before == CacheTimes(m5_cache) \cup ValidTimes(data.bars)
                after == CacheTimes(m5_cache')
            IN  /\ after \subseteq before
                /\ \A d \in before \ after : \A k \in after : d < k
                /\ before # after => Len(m5_cache') = M5_CACHE_MAX_BARS]_vars

\* a merge has just dropped bars
MergeBoundsCacheWitness ==
    /\ pc = "flush"
    /\ merge_ev.trimmed >= 1
    /\ Len(m5_cache) = M5_CACHE_MAX_BARS

\* C3, as claimed: merging a non-synthetic bar whose timestamp is in the
\* cache already, or earlier in the batch, leaves exactly one entry with that
\* timestamp, holding the bar merged last, and adds no entry for it.
MergeOverwritesExactlyOne ==
    [][IsMergeCall =>
        /\ Len(m5_cache') <=
               Cardinality(CacheTimes(m5_cache) \cup ValidTimes(data.bars))
        /\ \A i \in 1..Len(data.bars) :
               LET b == data.bars[i]
               IN  (/\ IsValidBar(b)
                    /\ \/ b.time \in CacheTimes(m5_cache)
                       \/ \E j \in 1..(i - 1) :
                              IsValidBar(data.bars[j]) /\ data.bars[j].time = b.time)
                   => /\ Cardinality(EntriesAt(m5_cache', b.time)) = 1
                      /\ \A k \in EntriesAt(m5_cache', b.time) :
                             m5_cache'[k] = LastMerged(data.bars, b.time)]_vars

\* C3, amended: such a merge leaves at most one entry with that timestamp;
\* the entry is missing only when the cache is full of later bars (the trim
\* dropped it as one of the oldest); an entry that is left holds the bar
\* merged last; no entry is added for it.
MergeOverwrites ==
    [][IsMergeCall =>
        /\ Len(m5_cache') <=
               Cardinality(CacheTimes(m5_cache) \cup ValidTimes(data.bars))
        /\ \A i \in 1..Len(data.bars) :
               LET b == data.bars[i]
               IN  (/\ IsValidBar(b)
                    /\ \/ b.time \in CacheTimes(m5_cache)
                       \/ \E j \in 1..(i - 1) :
                              IsValidBar(data.bars[j]) /\ data.bars[j].time = b.time)
                   => /\ Cardinality(EntriesAt(m5_cache', b.time)) <= 1
                      /\ \A k \in EntriesAt(m5_cache', b.time) :
                             m5_cache'[k] = LastMerged(data.bars, b.time)
                      /\ EntriesAt(m5_cache', b.time) = {} =>
                             /\ Len(m5_cache') = M5_CACHE_MAX_BARS
                             /\ \A k \in 1..Len(m5_cache') :
                                    b.time < m5_cache'[k].time]_vars

\* a merge has just overwritten a bar of the cache, and dropped nothing
MergeOverwritesWitness ==
    /\ pc = "flush"
    /\ merge_ev.updated >= 1
    /\ merge_ev.added = 0
    /\ merge_ev.trimmed = 0

\* C4: no bar flagged synthetic is in the cache or in the cache file.
NoSyntheticCached ==
    /\ \A i \in 1..Len(m5_cache) : ~m5_cache[i].synthetic
    /\ \A i \in 1..Len(m5_file.bars) : ~m5_file.bars[i].synthetic

\* a batch of build_bars_from_price with back-fill and real bars was merged
\* and the cache written
NoSyntheticCachedWitness ==
    /\ pc = "signal"
    /\ data.source = "API"
    /\ \E i \in 1..Len(data.bars) : data.bars[i].synthetic
    /\ \E i \in 1..Len(data.bars) : ~data.bars[i].synthetic
    /\ merge_ev.added + merge_ev.updated >= 1
    /\ m5_file.kind = "ok"
    /\ m5_file.bars = m5_cache
    /\ m5_cache # <<>>

\* ------------------------------------------------------------------------
\* Properties of the backtest queue and counters
\* ------------------------------------------------------------------------
Ids(records) == {records[i].id : i \in 1..Len(records)}

Seqs(history) == {history[i].seq : i \in 1..Len(history)}

\* a step that is one call of generate_signal
IsEvaluation == pc \in {"signal", "api_signal"} /\ sig_ev'.kind # "none"

\* a call of generate_signal that passed the test of the number of bars
IsFullEvaluation == pc \in {"signal", "api_signal"} /\ sig_ev'.kind = "eval"

\* the entries of the queue that are due at time t
Due(pending, t) == {i \in 1..Len(pending) : t - pending[i].timestamp >= BACKTEST_SECONDS}

\* C5: validate_backtest resolves a pending signal only when 14400 seconds
\* have passed since its timestamp; a resolved signal is out of the queue
\* when the call returns; no signal is counted twice in the counters, in
\* memory or in the backtest file.
ResolvedOnceWhenDue ==
    /\ [](/\ \A i, j \in 1..Len(counted) : counted[i] = counted[j] => i = j
          /\ Len(counted) = backtest_results.total
          /\ Ids(backtest_pending) \cap SeqToSet(counted) = {}
          /\ backtest_file.kind = "ok" =>
                 /\ Len(backtest_file.counted) = backtest_file.results.total
                 /\ Ids(backtest_file.pending)
                        \cap SeqToSet(backtest_file.counted) = {})
    /\ [][IsFullEvaluation =>
              \A k \in 1..Len(sig_ev'.validated) :
                  /\ \E i \in 1..Len(backtest_pending) :
                         /\ backtest_pending[i].id = sig_ev'.validated[k].id
                         /\ now - backtest_pending[i].timestamp >= BACKTEST_SECONDS
                  /\ sig_ev'.validated[k].id \notin Ids(backtest_pending')]_vars

\* a call resolved a signal and left a younger one, created before the
\* call, in the queue
ResolvedOnceWhenDueWitness ==
    /\ sig_ev.kind = "eval"
    /\ sig_ev.validated # <<>>
    /\ \E i \in 1..Len(backtest_pending) :
           /\ backtest_pending[i].timestamp < now
           /\ now - backtest_pending[i].timestamp < BACKTEST_SECONDS

\* C6: in a call of generate_signal with at least 50 bars, the pending
\* record, the history entry and the counters of signal changes are added
\* exactly when the signal differs from last_signal: then one pending record
\* (of the signal, at the bid, at the time of the call) and one history entry
\* (naming the signal before) are new, total and the counter of the signal
\* grow by one and last_signal is the signal; otherwise nothing of these
\* changes.
SideEffectsOnChangeOnly ==
    [][IsFullEvaluation =>
          LET signal == server_signal'.signal
              newPending == Ids(backtest_pending') \ Ids(backtest_pending)
              newHistory == Seqs(signal_history') \ Seqs(signal_history)
          IN  IF signal # last_signal
              THEN /\ Cardinality(newPending) = 1
                   /\ backtest_pending' # <<>>
                   /\ backtest_pending'[Len(backtest_pending')].id \in newPending
                   /\ backtest_pending'[Len(backtest_pending')].signal = signal
                   /\ backtest_pending'[Len(backtest_pending')].price = data.bid
                   /\ backtest_pending'[Len(backtest_pending')].timestamp = now
                   /\ Cardinality(newHistory) = 1
                   /\ signal_history' # <<>>
                   /\ signal_history'[Len(signal_history')].seq \in newHistory
                   /\ signal_history'[Len(signal_history')].signal = signal
                   /\ signal_history'[Len(signal_history')].prev_signal = last_signal
                   /\ \A i \in 1..(Len(signal_history') - 1) :
                          \E j \in 1..Len(signal_history) :
                              signal_history'[i] = signal_history[j]
                   /\ signal_stats' = CountSignal(signal_stats, signal)
                   /\ signal_stats'.total = signal_stats.total + 1
                   /\ last_signal' = signal
              ELSE /\ newPending = {}
                   /\ UNCHANGED <<signal_history, signal_stats, last_signal>>]_vars

\* a call that changed the signal after a call that kept it
SideEffectsOnChangeOnlyWitness ==
    /\ sig_ev.kind = "eval"
    /\ sig_ev.changed
    /\ Len(signal_history) >= 2
    /\ signal_stats.total >= 2
    /\ last_signal = server_signal.signal

\* C7: a call of generate_signal with fewer than 50 bars returns HOLD with
\* confidence 0 and changes neither the history, the statistics, last_signal,
\* the pending queue, the backtest counters nor the backtest file.
TooFewBarsNoEffect ==
    [][IsEvaluation /\ Len(data.bars) < MIN_SIGNAL_BARS =>
          /\ server_signal'.signal = "HOLD"
          /\ server_signal'.confidence = 0
          /\ server_signal'.reason = "Insufficient data"
          /\ UNCHANGED <<signal_history, signal_stats, last_signal,
                         backtest_pending, backtest_results, backtest_file>>]_vars

\* a call with too few bars while a signal of the queue was due and
\* last_signal was not HOLD
TooFewBarsNoEffectWitness ==
    /\ sig_ev.kind = "insufficient"
    /\ server_signal.signal = "HOLD"
    /\ last_signal \in {"BUY", "SELL"}
    /\ Due(backtest_pending, now) # {}

\* C8: after a call of generate_signal that evaluated, the pending queue has
\* at most 20 entries in memory and in the backtest file.
PendingCapped ==
    sig_ev.kind = "eval" =>
        /\ Len(backtest_pending) <= PENDING_MAX
        /\ backtest_file.kind = "ok" => Len(backtest_file.pending) <= PENDING_MAX

\* C9: a resolved BUY is a win iff (p - e) * 100 >= 100, a SELL iff
\* (e - p) * 100 >= 100, a HOLD iff |p - e| * 100 < 200; each resolution adds
\* one to total and to one of wins and losses, one to buy_total (and buy_wins
\* on a win) for a BUY, to sell_total (and sell_wins) for a SELL, and to no
\* counter of a direction for a HOLD.
Count(validated, P(_)) == Cardinality({k \in 1..Len(validated) : P(validated[k])})

WinRulesAndCounters ==
    [][IsFullEvaluation =>
          LET vs == sig_ev'.validated
          IN  /\ \A k \in 1..Len(vs) :
                     /\ vs[k].exit = data.bid
                     /\ \E i \in 1..Len(backtest_pending) :
                            /\ backtest_pending[i].id = vs[k].id
                            /\ backtest_pending[i].price = vs[k].entry
                            /\ backtest_pending[i].signal = vs[k].signal
                     /\ vs[k].signal = "BUY" =>
                            (vs[k].win <=> vs[k].exit - vs[k].entry >= 100)
                     /\ vs[k].signal = "SELL" =>
                            (vs[k].win <=> vs[k].entry - vs[k].exit >= 100)
                     /\ vs[k].signal = "HOLD" =>
                            (vs[k].win <=> /\ vs[k].exit - vs[k].entry < 200
                                           /\ vs[k].entry - vs[k].exit < 200)
              /\ backtest_results'.total = backtest_results.total + Len(vs)
              /\ backtest_results'.wins =
                     backtest_results.wins + Count(vs, LAMBDA v : v.win)
              /\ backtest_results'.losses =
                     backtest_results.losses + Count(vs, LAMBDA v : ~v.win)
              /\ backtest_results'.buy_total =
                     backtest_results.buy_total
                     + Count(vs, LAMBDA v : v.signal = "BUY")
              /\ backtest_results'.buy_wins =
                     backtest_results.buy_wins
                     + Count(vs, LAMBDA v : v.signal = "BUY" /\ v.win)
              /\ backtest_results'.sell_total =
                     backtest_results.sell_total
                     + Count(vs, LAMBDA v : v.signal = "SELL")
              /\ backtest_results'.sell_wins =
                     backtest_results.sell_wins
                     + Count(vs, LAMBDA v : v.signal = "SELL" /\ v.win)]_vars

\* one call resolved a win and a loss, and a HOLD has been resolved at the
\* edge of its range
WinRulesAndCountersWitness ==
    /\ sig_ev.kind = "eval"
    /\ \E k \in 1..Len(sig_ev.validated) : sig_ev.validated[k].win
    /\ \E k \in 1..Len(sig_ev.validated) : ~sig_ev.validated[k].win
    /\ \E k \in 1..Len(sig_ev.validated) :
           /\ sig_ev.validated[k].signal \in {"BUY", "SELL"}
           /\ sig_ev.validated[k].pips = MIN_MOVE_PIPS
    /\ backtest_results.buy_total + backtest_results.sell_total
           < backtest_results.total

IsSaveCall ==
    \/ pc = "flush" /\ save_ev' \notin {"none", "skipped"}
    \/ pc = "idle" /\ pc' = "stopped" /\ save_ev' # "none"

\* C11: save_m5_cache writes nothing when the dirty flag is clear; with the
\* flag set, a write that succeeds clears the flag and a write that fails
\* leaves it set; the cache in memory is as before and the caller goes on.
SaveHonoursDirtyFlag ==
    [][IsSaveCall =>
          /\ m5_cache' = m5_cache
          /\ pc' \in {"signal", "stopped"}
          /\ ~m5_cache_dirty =>
                 /\ save_ev' = "clean"
                 /\ UNCHANGED <<m5_file, m5_cache_dirty, m5_last_save>>
          /\ m5_cache_dirty /\ save_ev' = "ok" =>
                 /\ ~m5_cache_dirty'
                 /\ m5_file' = [kind |-> "ok", bars |-> m5_cache]
          /\ m5_cache_dirty /\ save_ev' # "ok" =>
                 /\ save_ev' \in {"intact", "corrupt"}
                 /\ m5_cache_dirty'
                 /\ m5_last_save' = m5_last_save]_vars

\* a write of a dirty cache failed in a refresh cycle, which went on to the
\* signal
SaveHonoursDirtyFlagWitness ==
    /\ pc = "signal"
    /\ save_ev \in {"intact", "corrupt"}
    /\ m5_cache_dirty
    /\ m5_cache # <<>>
    /\ m5_file.kind # "absent"

\* a refresh cycle writes the cache file with success
IsCycleWrite == pc = "flush" /\ save_ev' = "ok"

\* C12 as stated: two writes of the cache file that refresh cycles made with
\* success are more than 60 seconds apart.
CycleWritesThrottled ==
    [][IsCycleWrite /\ cycle_write # NoWrite =>
          now - cycle_write.time > SAVE_INTERVAL]_vars

\* C12, within one run of the process: two writes of the cache file that
\* refresh cycles of the same run made with success are more than 60 seconds
\* apart.
CycleWritesThrottledInRun ==
    [][IsCycleWrite /\ cycle_write # NoWrite /\ cycle_write.run = restarts =>
          now - cycle_write.time > SAVE_INTERVAL]_vars

\* the second write of a run has been made
CycleWritesThrottledInRunWitness ==
    /\ pc = "signal"
    /\ save_ev = "ok"
    /\ cycle_write.run = restarts
    /\ cycle_write.n >= 2
    /\ cycle_write.time = now

\* C13: when the process has ended, by whatever path, with the cache dirty,
\* save_m5_cache was called before the end.
FlushOnEveryExit ==
    pc = "stopped" /\ m5_cache_dirty =>
        save_ev \in {"ok", "intact", "corrupt"}

\* C14: a write that fails leaves the contents persisted before it as they
\* were, in the cache file and in the backtest file.
FailedWriteKeepsFiles ==
    [][/\ IsSaveCall /\ m5_file.kind = "ok" /\ save_ev' \in {"intact", "corrupt"} =>
              m5_file' = m5_file
       /\ /\ IsFullEvaluation
          /\ backtest_file.kind = "ok"
          /\ sig_ev'.writes # <<>>
          /\ \A k \in 1..Len(sig_ev'.writes) : sig_ev'.writes[k] # "ok"
          => backtest_file' = backtest_file]_vars

\* ------------------------------------------------------------------------
\* Properties of the start from files
\* ------------------------------------------------------------------------
\* the backtest file can be read and every pending entry has its keys
WellFormed(file) ==
    /\ file.kind = "ok"
    /\ \A i \in 1..Len(file.pending) : file.pending[i].timestamp # Missing

\* C15: a start from a backtest file that is missing, unreadable or
\* malformed gives the empty queue and the zero counters, and every call of
\* generate_signal with at least 50 bars returns a signal.
ColdStartIsEmptyAndScores ==
    [][/\ pc = "stopped" /\ pc' = "idle" /\ ~WellFormed(backtest_file) =>
              /\ backtest_pending' = <<>>
              /\ backtest_results' = ZeroResults
       /\ pc = "signal" /\ pc' = "idle" /\ HasEnoughBars(data.bars) =>
              server_signal'.signal \in {"BUY", "SELL", "HOLD"}]_vars

\* C16: a refresh cycle whose writes do not fail leaves on disk what is in
\* memory, also when an earlier write failed: the cache file holds the cache
\* once save_m5_cache has run, and the backtest file holds the queue and the
\* counters once generate_signal has evaluated.
UnsavedStateIsRetried ==
    [][/\ IsSaveCall /\ save_ev' \in {"clean", "ok"} /\ m5_file'.kind = "ok" =>
              m5_file'.bars = m5_cache'
       /\ /\ IsFullEvaluation
          /\ \A k \in 1..Len(sig_ev'.writes) : sig_ev'.writes[k] = "ok"
          => /\ backtest_file'.kind = "ok"
             /\ backtest_file'.pending = backtest_pending'
             /\ backtest_file'.results = backtest_results']_vars


\* ------------------------------------------------------------------------
\* Order of the stages of a refresh cycle
\* ------------------------------------------------------------------------
\* C17: in a refresh cycle the scorer is evaluated only after the cycle's
\* bars were merged into the cache: whenever a cycle has evaluated a signal,
\* its merge_bars_into_cache has run
ScoredAfterMergeOnly == sig_ev.kind = "eval" => merge_ev.seen


\* ------------------------------------------------------------------------
\* Properties of the signal history
\* ------------------------------------------------------------------------
\* C18: the signal history never holds more than 100 entries; while the
\* process runs it changes only in a call of generate_signal whose signal
\* differs from last_signal, which appends one entry, and when the history
\* was full that call drops the oldest entry and keeps the others in order.
HistoryRingOnChange ==
    /\ [](Len(signal_history) <= HISTORY_MAX)
    /\ [][/\ (signal_history' # signal_history /\ pc # "stopped") =>
                (IsFullEvaluation /\ server_signal'.signal # last_signal)
          /\ (IsFullEvaluation /\ server_signal'.signal # last_signal) =>
                LET kept == IF Len(signal_history) < HISTORY_MAX
                            THEN signal_history
                            ELSE Tail(signal_history)
                IN  /\ Len(signal_history') = Len(kept) + 1
                    /\ SubSeq(signal_history', 1, Len(kept)) = kept
                    /\ signal_history'[Len(signal_history')].signal =
                           server_signal'.signal
                    /\ \A i \in 1..Len(kept) :
                           signal_history'[Len(signal_history')].seq > kept[i].seq]_vars

\* a change of the signal met a full history: an entry of this run is gone
HistoryRingOnChangeWitness ==
    /\ sig_ev.kind = "eval"
    /\ sig_ev.changed
    /\ Len(signal_history) = HISTORY_MAX
    /\ signal_stats.total > HISTORY_MAX


\* ------------------------------------------------------------------------
\* Properties of the decision
\* ------------------------------------------------------------------------
\* C19: a call of generate_signal with at least 50 bars returns BUY exactly
\* when its composite score is above 35, SELL exactly when it is below -35,
\* and HOLD otherwise, so at 35 and at -35 (the score is held times 100).
DecisionBands ==
    [][IsFullEvaluation =>
          /\ server_signal'.signal \in {"BUY", "SELL", "HOLD"}
          /\ server_signal'.signal = "BUY" <=> server_signal'.score > 35 * 100
          /\ server_signal'.signal = "SELL" <=> server_signal'.score < 0 - 35 * 100
          /\ server_signal'.score \in {35 * 100, 0 - 35 * 100} =>
                 server_signal'.signal = "HOLD"]_vars

\* a call scored exactly 35 and returned HOLD, after a call that scored
\* exactly -35 and recorded HOLD
DecisionBandsWitness ==
    /\ sig_ev.kind = "eval"
    /\ server_signal.score = 35 * 100
    /\ server_signal.signal = "HOLD"
    /\ \E i \in 1..Len(signal_history) :
           /\ signal_history[i].score = 0 - 35 * 100
           /\ signal_history[i].signal = "HOLD"


\* ------------------------------------------------------------------------
\* Properties of the sub-scores
\* ------------------------------------------------------------------------
\* all bars have one price, open = high = low = close
IsFlat(bars, p) ==
    \A i \in 1..Len(bars) :
        bars[i].o = p /\ bars[i].h = p /\ bars[i].l = p /\ bars[i].c = p

\* C20: a call of generate_signal with enough bars that all have one price,
\* and with the bid at that price, returns the sub-scores trend, momentum,
\* macd and volatility 0, a composite score within the HOLD band and the
\* decision HOLD.
FlatBarsAreNeutral ==
    [][IsFullEvaluation /\ IsFlat(data.bars, data.bid) =>
          /\ server_signal'.scores.trend = 0
          /\ server_signal'.scores.momentum = 0
          /\ server_signal'.scores.macd = 0
          /\ server_signal'.scores.volatility = 0
          /\ Abs(server_signal'.score) <= 35 * 100
          /\ server_signal'.signal = "HOLD"]_vars


\* C21: in a call of generate_signal with at least 50 bars the strength
\* sub-score is 0 when the ADX is at most 25, has magnitude 50 when the ADX
\* is above 25 and at most 40, magnitude 100 when it is above 40, and has the
\* sign of the trend sub-score: it is positive only with a positive trend
\* sub-score and negative only with a negative one.
StrengthFollowsTrend ==
    [][IsFullEvaluation =>
          LET adx == CalcAdx(data.bars)
              s == server_signal'.scores
          IN  /\ adx <= 25 * 10 => s.strength = 0
              /\ (adx > 25 * 10 /\ adx <= 40 * 10) => Abs(s.strength) = 50
              /\ adx > 40 * 10 => Abs(s.strength) = 100
              /\ s.strength > 0 => s.trend > 0
              /\ s.strength < 0 => s.trend < 0]_vars


\* ------------------------------------------------------------------------
\* Properties of build_bars_from_price
\* ------------------------------------------------------------------------
\* get_api_data has built the bars of the cycle from the bid
IsBuilt == pc = "api_signal"

\* C22: the list build_bars_from_price returns has at most 200 bars and is
\* in ascending order of time; every synthetic bar of it has a time that is
\* not later than the call and is earlier than the time of every real bar.
BuiltBarsAscend ==
    IsBuilt =>
        /\ Len(data.bars) <= BARS_RETURN_MAX
        /\ \A i, j \in 1..Len(data.bars) :
               i < j => data.bars[i].time < data.bars[j].time
        /\ \A i \in 1..Len(data.bars) :
               data.bars[i].synthetic =>
                   /\ data.bars[i].time <= now
                   /\ \A j \in 1..Len(data.bars) :
                          ~data.bars[j].synthetic =>
                              data.bars[i].time < data.bars[j].time

\* C23: in the list build_bars_from_price returns for the price p, the bar
\* with the latest time, real or synthetic, has the close p and has
\* low <= close <= high.
LatestBarHoldsPrice ==
    IsBuilt =>
        \A i \in 1..Len(data.bars) :
            (\A j \in 1..Len(data.bars) : data.bars[j].time <= data.bars[i].time) =>
                /\ data.bars[i].c = data.bid
                /\ data.bars[i].l <= data.bars[i].c
                /\ data.bars[i].c <= data.bars[i].h

\* ------------------------------------------------------------------------
\* Timeframe compounder and hourly momentum
\* ------------------------------------------------------------------------
IsDerive == pc = "derive" /\ pc' = "idle"

DayOf(bar) == bar.time \div DAY_SECONDS

\* every bar has a time and all times are of one calendar day
OneDay(bs) ==
    /\ bs # <<>>
    /\ \A i \in 1..Len(bs) : bs[i].time # 0 /\ DayOf(bs[i]) = DayOf(bs[1])

DayCount(bs, day) ==
    Cardinality({i \in 1..Len(bs) : bs[i].time # 0 /\ DayOf(bs[i]) = day})

\* C24: base bars of one calendar day, enough of them to be compounded, give
\* exactly one daily bar with the open of the first base bar, the close of
\* the last, the highest high, the lowest low and the sum of the volumes; a
\* day with fewer base bars than the bucket minimum gives no daily bar.
DailyBarCompounds ==
    [][IsDerive =>
        LET bs == data.bars
            d1 == derived'.bars_d1
        IN  /\ (OneDay(bs) /\ Len(bs) >= D1_MIN_BARS) =>
                   /\ Len(d1) = 1
                   /\ d1[1].o = bs[1].o
                   /\ d1[1].c = bs[Len(bs)].c
                   /\ \A i \in 1..Len(bs) : bs[i].h <= d1[1].h /\ d1[1].l <= bs[i].l
                   /\ \E i \in 1..Len(bs) : bs[i].h = d1[1].h
                   /\ \E i \in 1..Len(bs) : bs[i].l = d1[1].l
                   /\ d1[1].v = SeqSum([i \in 1..Len(bs) |-> bs[i].v])
            /\ \A k \in 1..Len(d1) :
                   DayCount(bs, DayOf(d1[k])) >= D1_MIN_BUCKET]_vars

\* a daily bar was compounded from base bars whose first open differs from
\* the last one's
DailyBarBuilt ==
    /\ pc = "idle"
    /\ Len(derived.bars_d1) = 1
    /\ derived.bars_d1[1].v = 100 + 200 + 300 + 400
    /\ derived.bars_d1[1].o # derived.bars_d1[1].c

\* C25: get_1h_momentum returns four entries, for the hours 1 to 4; with
\* fewer than four hourly bars and fewer base bars than four hours take,
\* every entry is COLLECTING, greens and reds are 0 and the trend is FLAT; in
\* all cases greens + reds is at most four and the trend is UP exactly when
\* greens > reds, DOWN exactly when reds > greens, and FLAT otherwise.
MomentumShape ==
    [][IsDerive =>
        LET m == derived'.momentum_1h
        IN  /\ Len(m.hours) = MOMENTUM_HOURS
            /\ \A h \in 1..MOMENTUM_HOURS : m.hours[h].hour = h
            /\ (/\ Len(derived'.bars_h1) < MOMENTUM_HOURS
                /\ Len(data.bars) < MOMENTUM_MIN_BARS) =>
                   /\ \A h \in 1..MOMENTUM_HOURS :
                          m.hours[h].direction = "COLLECTING"
                   /\ m.greens = 0
                   /\ m.reds = 0
                   /\ m.trend = "FLAT"
            /\ m.greens + m.reds <= MOMENTUM_HOURS
            /\ (m.trend = "UP") <=> (m.greens > m.reds)
            /\ (m.trend = "DOWN") <=> (m.reds > m.greens)
            /\ (m.trend = "FLAT") <=> (m.greens = m.reds)]_vars

\* one green hour, one red hour and placeholders for the rest: a tie
MomentumTie ==
    /\ pc = "idle"
    /\ derived.momentum_1h.greens = 1
    /\ derived.momentum_1h.reds = 1
    /\ derived.momentum_1h.trend = "FLAT"
    /\ \E h \in 1..MOMENTUM_HOURS :
           derived.momentum_1h.hours[h].direction = "COLLECTING"

\* ------------------------------------------------------------------------
\* Cumulative counters
\* ------------------------------------------------------------------------
\* C26: from zeroed counters on, the cumulative backtest results always have
\* total = wins + losses, buy_wins <= buy_total, sell_wins <= sell_total,
\* buy_total + sell_total <= total and buy_wins + sell_wins <= wins.
ResultsConsistent ==
    LET r == backtest_results
    IN  /\ r.total = r.wins + r.losses
        /\ r.buy_wins <= r.buy_total
        /\ r.sell_wins <= r.sell_total
        /\ r.buy_total + r.sell_total <= r.total
        /\ r.buy_wins + r.sell_wins <= r.wins

\* a BUY was resolved as a win, another signal as a loss
ResultsCounted ==
    /\ backtest_results.buy_wins >= 1
    /\ backtest_results.losses >= 1

\* ------------------------------------------------------------------------
\* The backtest file as a mirror of the queue
\* ------------------------------------------------------------------------
\* C27: after every evaluation of generate_signal that ran to its end and
\* whose file writes all succeeded, load_backtest_data would read from the
\* backtest file the queue and the counters that are in memory: a restart
\* brings back no entry that the cap dropped.
RestartReloadsQueue ==
    [][(/\ IsFullEvaluation
        /\ \A k \in 1..Len(sig_ev'.writes) : sig_ev'.writes[k] = "ok")
       => /\ LoadBacktest(backtest_file').pending = backtest_pending'
          /\ LoadBacktest(backtest_file').results = backtest_results']_vars

\* ------------------------------------------------------------------------
\* The dirty flag of the bar cache
\* ------------------------------------------------------------------------
\* C28: in a process that started without a cache file and with an empty
\* cache, after any merges and flushes, successful or failed, a clear dirty
\* flag means that the bar list last written to the cache file is the cache
\* in memory (nothing written yet: the cache is empty).
CleanCacheIsOnDisk ==
    (restarts = 0 /\ ~m5_cache_dirty) =>
        IF m5_file.kind = "absent" THEN m5_cache = <<>>
        ELSE m5_file.kind = "ok" /\ m5_file.bars = m5_cache

\* a full cache was flushed and the flag is clear
FullCacheFlushed ==
    /\ restarts = 0
    /\ ~m5_cache_dirty
    /\ save_ev = "ok"
    /\ m5_file.kind = "ok"
    /\ Len(m5_cache) = M5_CACHE_MAX_BARS

\* ------------------------------------------------------------------------
\* Progress of the backtest queue
\* ------------------------------------------------------------------------
\* the queue holds the signal id, and the clock of the model reaches the
\* time at which it is due
DueInHorizon(id) ==
    \E i \in 1..Len(backtest_pending) :
        /\ backtest_pending[i].id = id
        /\ backtest_pending[i].timestamp + BACKTEST_SECONDS
               <= StartTime + MaxTicks * TickSeconds

\* C29: while time advances and evaluations with enough bars keep occurring,
\* every pending signal leaves the queue in the end, resolved by the
\* validator or dropped by the cap; an evaluation with too few bars resolves
\* nothing: it leaves the queue and the counters as they were.
PendingEventuallyLeaves ==
    /\ \A id \in 1..MaxSignals :
           [](DueInHorizon(id) => <>(id \notin Ids(backtest_pending)))
    /\ [][(IsEvaluation /\ sig_ev'.kind = "insufficient")
          => /\ backtest_pending' = backtest_pending
             /\ backtest_results' = backtest_results]_vars

\* at the end of the horizon an evaluation has resolved a due signal and
\* left the queue empty
PendingResolvedAtLast ==
    /\ pc = "idle"
    /\ now = StartTime + MaxTicks * TickSeconds
    /\ sig_ev.kind = "eval"
    /\ Len(sig_ev.validated) >= 1
    /\ backtest_pending = <<>>

\* ------------------------------------------------------------------------
\* Signal statistics
\* ------------------------------------------------------------------------
\* C30: the signal statistics always have total = buy + sell + hold, and
\* total is the number of pending signals created since the process
\* started, one per signal change; the first evaluation with enough bars
\* counts as a change, no last signal being stored yet.
StatsCountCreatedSignals ==
    /\ [](/\ signal_stats.total
                = signal_stats.buy + signal_stats.sell + signal_stats.hold
          /\ signal_stats.total = next_id - first_id)
    /\ [][(IsFullEvaluation /\ last_signal = "NONE")
          => /\ sig_ev'.changed
             /\ signal_stats'.total = signal_stats.total + 1]_vars

\* the second run of the process has counted a HOLD and another signal of
\* its own, after signals of the first run
StatsCountedInSecondRun ==
    /\ restarts = 1
    /\ first_id >= 1
    /\ signal_stats.hold = 1
    /\ signal_stats.total = 2

=============================================================================
